---- MODULE Spec2Model ----
(***************************************************************************)
(* Model of the rule-based diagnosis engine (src/src/inference_engine.py), *)
(* the patient report (src/src/symptoms.py, PatientSymptoms), the disease  *)
(* catalog (src/src/knowledge_base.py) and the case battery                *)
(* (src/src/cases.py).                                                     *)
(*                                                                         *)
(* Spec: a knowledge base whose catalog callers fill with register_disease *)
(* and a report callers edit, with _evaluate_disease, diagnose and         *)
(* backward_chain called in any state.                                     *)
(* SpecShipped: KnowledgeBase() as shipped (38 diseases), with the reports *)
(* of the 12 cases of CaseGenerator and of the tests.                      *)
(*                                                                         *)
(* Python floats are modelled by exact rational numbers: every float       *)
(* expression of the source is evaluated without rounding.  A rational is  *)
(* a record [neg, n, d] with n, d natural numbers of arbitrary size held   *)
(* as little-endian sequences of base-10000 digits.  Two rationals are     *)
(* compared by value (QCmp, QEq), never by representation.                 *)
(***************************************************************************)
EXTENDS Integers, Sequences, FiniteSets, TLC

(***************************************************************************)
(* Natural numbers of arbitrary size.                                      *)
(***************************************************************************)
Base == 100 * 100

RECURSIVE BNat(_)
BNat(n) == IF n = 0 THEN <<>> ELSE <<n % Base>> \o BNat(n \div Base)

RECURSIVE BStrip(_)
BStrip(a) ==
    IF a # <<>> /\ a[Len(a)] = 0 THEN BStrip(SubSeq(a, 1, Len(a) - 1)) ELSE a

BDigit(a, i) == IF i >= 1 /\ i <= Len(a) THEN a[i] ELSE 0

BMaxLen(a, b) == IF Len(a) >= Len(b) THEN Len(a) ELSE Len(b)

\* cols[i] may exceed Base - 1 or be negative: propagate carries (borrows).
RECURSIVE BCarry(_, _, _)
BCarry(cols, i, c) ==
    IF i > Len(cols)
    THEN BNat(c)
    ELSE LET s == cols[i] + c
             r == s % Base
         IN <<r>> \o BCarry(cols, i + 1, (s - r) \div Base)

BAdd(a, b) == BCarry([i \in 1..BMaxLen(a, b) |-> BDigit(a, i) + BDigit(b, i)], 1, 0)

\* a - b for a >= b
BSub(a, b) ==
    BStrip(BCarry([i \in 1..BMaxLen(a, b) |-> BDigit(a, i) - BDigit(b, i)], 1, 0))

RECURSIVE BColSum(_, _, _, _)
BColSum(a, b, k, i) ==
    IF i > Len(a) \/ i > k THEN 0
    ELSE BDigit(a, i) * BDigit(b, k + 1 - i) + BColSum(a, b, k, i + 1)

BMul(a, b) ==
    IF a = <<>> \/ b = <<>> THEN <<>>
    ELSE BStrip(BCarry([k \in 1..(Len(a) + Len(b) - 1) |-> BColSum(a, b, k, 1)], 1, 0))

RECURSIVE BCmpFrom(_, _, _)
BCmpFrom(a, b, i) ==
    IF i = 0 THEN 0
    ELSE IF a[i] < b[i] THEN -1
    ELSE IF a[i] > b[i] THEN 1
    ELSE BCmpFrom(a, b, i - 1)

\* -1, 0, 1 as a < b, a = b, a > b
BCmp(a, b) ==
    IF Len(a) < Len(b) THEN -1
    ELSE IF Len(a) > Len(b) THEN 1
    ELSE BCmpFrom(a, b, Len(a))

\* remainder of a by a small m (0 < m < Base), most significant digit first
RECURSIVE BModSmall(_, _, _, _)
BModSmall(a, m, i, r) ==
    IF i = 0 THEN r ELSE BModSmall(a, m, i - 1, (r * Base + a[i]) % m)

RECURSIVE BDivDigits(_, _, _, _)
BDivDigits(a, m, i, r) ==
    IF i = 0 THEN <<>>
    ELSE LET x == r * Base + a[i]
         IN BDivDigits(a, m, i - 1, x % m) \o <<x \div m>>

\* quotient of a by a small m
BDivSmall(a, m) == BStrip(BDivDigits(a, m, Len(a), 0))

(***************************************************************************)
(* Exact rationals (the values of the source's float expressions).         *)
(***************************************************************************)
SmallPrimes == <<2, 3, 5>>

\* Cancel the common factors of n and d among the small primes.  The value
\* n/d is unchanged; only the size of the representation shrinks.
RECURSIVE BCancel(_, _, _)
BCancel(n, d, i) ==
    IF i > Len(SmallPrimes) \/ n = <<>> THEN <<n, d>>
    ELSE LET p == SmallPrimes[i]
         IN IF BModSmall(n, p, Len(n), 0) = 0 /\ BModSmall(d, p, Len(d), 0) = 0
            THEN BCancel(BDivSmall(n, p), BDivSmall(d, p), i)
            ELSE BCancel(n, d, i + 1)

QOf(neg, c) == [neg |-> neg, n |-> c[1], d |-> c[2]]

QNorm(neg, n, d) ==
    IF n = <<>> THEN [neg |-> FALSE, n |-> <<>>, d |-> BNat(1)]
    ELSE QOf(neg, BCancel(n, d, 1))

\* the rational n/d of two integers, d > 0
Q(n, d) == QNorm(n < 0, BNat(IF n < 0 THEN -n ELSE n), BNat(d))

QNeg(x) == IF x.n = <<>> THEN x ELSE [x EXCEPT !.neg = ~x.neg]

\* a/d + b/d with the signs xneg, yneg
QAddParts(xneg, yneg, a, b, d) ==
    IF xneg = yneg THEN QNorm(xneg, BAdd(a, b), d)
    ELSE IF BCmp(a, b) >= 0 THEN QNorm(xneg, BSub(a, b), d)
    ELSE QNorm(yneg, BSub(b, a), d)

QAdd(x, y) ==
    QAddParts(x.neg, y.neg, BMul(x.n, y.d), BMul(y.n, x.d), BMul(x.d, y.d))

QSub(x, y) == QAdd(x, QNeg(y))

QMul(x, y) == QNorm(x.neg # y.neg, BMul(x.n, y.n), BMul(x.d, y.d))

\* 1 / x, x # 0
QInv(x) == [neg |-> x.neg, n |-> x.d, d |-> x.n]

QDiv(x, y) == QMul(x, QInv(y))

\* -1, 0, 1 as x < y, x = y, x > y
QCmpParts(xneg, yneg, a, b) ==
    IF xneg /\ ~yneg THEN -1
    ELSE IF ~xneg /\ yneg THEN 1
    ELSE IF xneg THEN BCmp(b, a)
    ELSE BCmp(a, b)

QCmp(x, y) == QCmpParts(x.neg, y.neg, BMul(x.n, y.d), BMul(y.n, x.d))

QLt(x, y) == QCmp(x, y) < 0
QLe(x, y) == QCmp(x, y) <= 0
QEq(x, y) == QCmp(x, y) = 0
QMax(x, y) == IF QLt(x, y) THEN y ELSE x
QMin(x, y) == IF QLt(y, x) THEN y ELSE x

(***************************************************************************)
(* Shipped data: the symptom catalog, the disease catalog and the cases.   *)
(* Accents are dropped from the strings.                                   *)
(***************************************************************************)
\* <<id, category, severity_weight in tenths>> of every registered symptom
SymptomRows ==
    {<<"TOS_SECA", "RESPIRATORIO", 12>>,
     <<"TOS_PRODUCTIVA", "RESPIRATORIO", 15>>,
     <<"DIFICULTAD_RESPIRAR", "RESPIRATORIO", 25>>,
     <<"CONGESTION_NASAL", "RESPIRATORIO", 8>>,
     <<"ESTORNUDOS", "RESPIRATORIO", 7>>,
     <<"DOLOR_GARGANTA", "OTORRINOLARINGOLOGICO", 13>>,
     <<"SIBILANCIAS", "RESPIRATORIO", 20>>,
     <<"RESPIRACION_RAPIDA", "RESPIRATORIO", 19>>,
     <<"RESPIRACION_SUPERFICIAL", "RESPIRATORIO", 17>>,
     <<"OPRESION_PECHO", "RESPIRATORIO", 22>>,
     <<"SECRECION_NASAL", "RESPIRATORIO", 6>>,
     <<"SANGRADO_NASAL", "RESPIRATORIO", 14>>,
     <<"PICAZON_NARIZ", "RESPIRATORIO", 5>>,
     <<"EXPECTORACION_SANGRE", "RESPIRATORIO", 28>>,
     <<"RONQUIDOS", "RESPIRATORIO", 8>>,
     <<"APNEA_SUENO", "RESPIRATORIO", 21>>, <<"NAUSEAS", "DIGESTIVO", 14>>,
     <<"VOMITO", "DIGESTIVO", 18>>, <<"DIARREA", "DIGESTIVO", 16>>,
     <<"DOLOR_ABDOMINAL", "DIGESTIVO", 15>>, <<"ACIDEZ", "DIGESTIVO", 12>>,
     <<"ESTRENIMIENTO", "DIGESTIVO", 9>>, <<"HINCHAZON", "DIGESTIVO", 10>>,
     <<"GASES", "DIGESTIVO", 7>>, <<"ERUCTOS", "DIGESTIVO", 6>>,
     <<"REGURGITACION", "DIGESTIVO", 13>>,
     <<"DIFICULTAD_TRAGAR", "DIGESTIVO", 19>>,
     <<"SANGRE_HECES", "DIGESTIVO", 25>>, <<"HECES_NEGRAS", "DIGESTIVO", 26>>,
     <<"VOMITO_SANGRE", "DIGESTIVO", 30>>,
     <<"PERDIDA_PESO", "DIGESTIVO", 18>>, <<"SABOR_AMARGO", "DIGESTIVO", 8>>,
     <<"SALIVACION_EXCESIVA", "DIGESTIVO", 10>>,
     <<"BOCA_SECA", "DIGESTIVO", 9>>,
     <<"CALAMBRES_ABDOMINALES", "DIGESTIVO", 14>>,
     <<"SENSACION_PLENITUD", "DIGESTIVO", 11>>, <<"FIEBRE", "GENERAL", 20>>,
     <<"ESCALOFRIOS", "GENERAL", 15>>, <<"FATIGA", "GENERAL", 13>>,
     <<"SUDORACION", "GENERAL", 11>>, <<"PERDIDA_APETITO", "GENERAL", 12>>,
     <<"MALESTAR_GENERAL", "GENERAL", 10>>,
     <<"SUDORES_NOCTURNOS", "GENERAL", 14>>,
     <<"DESHIDRATACION", "GENERAL", 20>>,
     <<"AUMENTO_APETITO", "GENERAL", 10>>, <<"INSOMNIO", "GENERAL", 12>>,
     <<"SOMNOLENCIA", "GENERAL", 13>>, <<"SENSIBILIDAD_LUZ", "GENERAL", 15>>,
     <<"SENSIBILIDAD_RUIDO", "GENERAL", 14>>, <<"PALIDEZ", "GENERAL", 15>>,
     <<"AUMENTO_SED", "GENERAL", 13>>, <<"DOLOR_CABEZA", "NEUROLOGICO", 13>>,
     <<"MAREOS", "NEUROLOGICO", 15>>, <<"CONFUSION", "NEUROLOGICO", 22>>,
     <<"VERTIGO", "NEUROLOGICO", 18>>,
     <<"PERDIDA_EQUILIBRIO", "NEUROLOGICO", 19>>,
     <<"HORMIGUEO", "NEUROLOGICO", 14>>,
     <<"ENTUMECIMIENTO", "NEUROLOGICO", 17>>,
     <<"DESMAYO", "NEUROLOGICO", 25>>, <<"CONVULSIONES", "NEUROLOGICO", 30>>,
     <<"TEMBLOR", "NEUROLOGICO", 16>>,
     <<"PERDIDA_MEMORIA", "NEUROLOGICO", 18>>,
     <<"DIFICULTAD_CONCENTRACION", "NEUROLOGICO", 12>>,
     <<"PERDIDA_CONCIENCIA", "NEUROLOGICO", 32>>,
     <<"ALTERACION_HABLA", "NEUROLOGICO", 23>>,
     <<"MIGRANA", "NEUROLOGICO", 21>>, <<"ZUMBIDO_OIDOS", "NEUROLOGICO", 13>>,
     <<"DOLOR_MUSCULAR", "MUSCULAR", 14>>,
     <<"DOLOR_ARTICULAR", "MUSCULAR", 15>>, <<"DEBILIDAD", "MUSCULAR", 16>>,
     <<"RIGIDEZ", "MUSCULAR", 13>>, <<"CALAMBRES", "MUSCULAR", 12>>,
     <<"ESPASMOS", "MUSCULAR", 13>>,
     <<"HINCHAZON_ARTICULAR", "MUSCULAR", 17>>,
     <<"DOLOR_ESPALDA", "MUSCULAR", 15>>, <<"DOLOR_CUELLO", "MUSCULAR", 14>>,
     <<"DOLOR_HOMBRO", "MUSCULAR", 14>>, <<"COJERA", "MUSCULAR", 16>>,
     <<"ATROFIA_MUSCULAR", "MUSCULAR", 20>>,
     <<"ERUPCION", "DERMATOLOGICO", 17>>,
     <<"PICAZON_PIEL", "DERMATOLOGICO", 10>>,
     <<"ENROJECIMIENTO", "DERMATOLOGICO", 11>>,
     <<"AMPOLLAS", "DERMATOLOGICO", 16>>,
     <<"URTICARIA", "DERMATOLOGICO", 15>>,
     <<"PIEL_SECA", "DERMATOLOGICO", 7>>,
     <<"DESCAMACION", "DERMATOLOGICO", 9>>,
     <<"HEMATOMAS", "DERMATOLOGICO", 12>>,
     <<"SUDORACION_EXCESIVA", "DERMATOLOGICO", 10>>,
     <<"ACNE", "DERMATOLOGICO", 8>>, <<"MANCHAS_PIEL", "DERMATOLOGICO", 9>>,
     <<"PIEL_AMARILLA", "DERMATOLOGICO", 24>>,
     <<"INFLAMACION_PIEL", "DERMATOLOGICO", 15>>,
     <<"DOLOR_PIEL", "DERMATOLOGICO", 13>>,
     <<"LESIONES_PIEL", "DERMATOLOGICO", 18>>,
     <<"CAMBIO_LUNAR", "DERMATOLOGICO", 20>>,
     <<"VERRUGAS", "DERMATOLOGICO", 8>>,
     <<"PIEL_PALIDA", "DERMATOLOGICO", 14>>,
     <<"DOLOR_PECHO", "CARDIOVASCULAR", 28>>,
     <<"PALPITACIONES", "CARDIOVASCULAR", 18>>,
     <<"TAQUICARDIA", "CARDIOVASCULAR", 20>>,
     <<"BRADICARDIA", "CARDIOVASCULAR", 19>>,
     <<"HINCHAZON_PIERNAS", "CARDIOVASCULAR", 17>>,
     <<"HINCHAZON_PIES", "CARDIOVASCULAR", 16>>,
     <<"PRESION_ALTA", "CARDIOVASCULAR", 21>>,
     <<"PRESION_BAJA", "CARDIOVASCULAR", 18>>,
     <<"LATIDO_IRREGULAR", "CARDIOVASCULAR", 23>>,
     <<"EXTREMIDADES_FRIAS", "CARDIOVASCULAR", 12>>,
     <<"VARICES", "CARDIOVASCULAR", 11>>,
     <<"CIANOSIS", "CARDIOVASCULAR", 27>>, <<"DOLOR_ORINAR", "URINARIO", 19>>,
     <<"FRECUENCIA_URINARIA", "URINARIO", 13>>,
     <<"ORINA_TURBIA", "URINARIO", 15>>, <<"SANGRE_ORINA", "URINARIO", 24>>,
     <<"OLOR_FUERTE_ORINA", "URINARIO", 12>>,
     <<"URGENCIA_URINARIA", "URINARIO", 16>>,
     <<"INCONTINENCIA", "URINARIO", 17>>,
     <<"DIFICULTAD_ORINAR", "URINARIO", 18>>,
     <<"RETENCION_URINARIA", "URINARIO", 22>>,
     <<"ORINA_OSCURA", "URINARIO", 16>>,
     <<"MICCION_NOCTURNA", "URINARIO", 13>>,
     <<"VISION_BORROSA", "OFTALMOLOGICO", 16>>,
     <<"OJOS_ROJOS", "OFTALMOLOGICO", 12>>,
     <<"PICAZON_OJOS", "OFTALMOLOGICO", 10>>,
     <<"LAGRIMEO", "OFTALMOLOGICO", 9>>, <<"OJO_SECO", "OFTALMOLOGICO", 11>>,
     <<"DOLOR_OJOS", "OFTALMOLOGICO", 17>>,
     <<"SENSIBILIDAD_LUZ_OJOS", "OFTALMOLOGICO", 15>>,
     <<"VISION_DOBLE", "OFTALMOLOGICO", 21>>,
     <<"PUNTOS_VISION", "OFTALMOLOGICO", 13>>,
     <<"PERDIDA_VISION", "OFTALMOLOGICO", 28>>,
     <<"HALOS_LUZ", "OFTALMOLOGICO", 14>>,
     <<"SECRECION_OCULAR", "OFTALMOLOGICO", 13>>,
     <<"HINCHAZON_PARPADOS", "OFTALMOLOGICO", 14>>,
     <<"OJOS_AMARILLOS", "OFTALMOLOGICO", 25>>,
     <<"DOLOR_OIDO", "OTORRINOLARINGOLOGICO", 17>>,
     <<"SECRECION_OIDO", "OTORRINOLARINGOLOGICO", 18>>,
     <<"PERDIDA_AUDICION", "OTORRINOLARINGOLOGICO", 19>>,
     <<"CONGESTION_OIDO", "OTORRINOLARINGOLOGICO", 12>>,
     <<"RONQUERA", "OTORRINOLARINGOLOGICO", 13>>,
     <<"PERDIDA_VOZ", "OTORRINOLARINGOLOGICO", 16>>,
     <<"HINCHAZON_GARGANTA", "OTORRINOLARINGOLOGICO", 20>>,
     <<"MANCHAS_GARGANTA", "OTORRINOLARINGOLOGICO", 18>>,
     <<"MAL_ALIENTO", "OTORRINOLARINGOLOGICO", 8>>,
     <<"PERDIDA_GUSTO", "OTORRINOLARINGOLOGICO", 15>>,
     <<"PERDIDA_OLFATO", "OTORRINOLARINGOLOGICO", 15>>,
     <<"IRRITACION_GARGANTA", "OTORRINOLARINGOLOGICO", 11>>,
     <<"GARGANTA_SECA", "OTORRINOLARINGOLOGICO", 10>>,
     <<"GANGLIOS_INFLAMADOS", "OTORRINOLARINGOLOGICO", 17>>,
     <<"CALOR_LOCAL", "GENERAL", 14>>, <<"ESCALOFRIOS_NOCHE", "GENERAL", 16>>,
     <<"IRRITABILIDAD", "NEUROLOGICO", 11>>,
     <<"ANSIEDAD", "NEUROLOGICO", 15>>,
     <<"CAMBIOS_HUMOR", "NEUROLOGICO", 12>>,
     <<"DOLOR_PIERNAS", "MUSCULAR", 13>>, <<"DOLOR_BRAZOS", "MUSCULAR", 13>>,
     <<"HINCHAZON_MANOS", "CARDIOVASCULAR", 14>>,
     <<"HINCHAZON_CARA", "GENERAL", 17>>,
     <<"HINCHAZON_CUELLO", "OTORRINOLARINGOLOGICO", 19>>,
     <<"SANGRADO_ENCIAS", "OTORRINOLARINGOLOGICO", 12>>,
     <<"DOLOR_ENCIAS", "OTORRINOLARINGOLOGICO", 13>>,
     <<"SENSIBILIDAD_DENTAL", "OTORRINOLARINGOLOGICO", 12>>,
     <<"DOLOR_DENTAL", "OTORRINOLARINGOLOGICO", 18>>,
     <<"LENGUA_BLANCA", "OTORRINOLARINGOLOGICO", 9>>,
     <<"LLAGAS_BOCA", "OTORRINOLARINGOLOGICO", 14>>,
     <<"DOLOR_BOCA", "OTORRINOLARINGOLOGICO", 13>>,
     <<"DOLOR_FACIAL", "NEUROLOGICO", 16>>,
     <<"PRESION_FACIAL", "NEUROLOGICO", 15>>,
     <<"HAMBRE_EXTREMA", "GENERAL", 13>>,
     <<"INTOLERANCIA_CALOR", "GENERAL", 12>>,
     <<"SOFOCAMIENTO", "RESPIRATORIO", 23>>,
     <<"URGENCIA_DEFECACION", "DIGESTIVO", 15>>,
     <<"SENSACION_EVACUACION_INCOMPLETA", "DIGESTIVO", 12>>,
     <<"DOLOR_ANAL", "DIGESTIVO", 17>>, <<"PICAZON_ANAL", "DIGESTIVO", 11>>,
     <<"HINCHAZON_ANAL", "DIGESTIVO", 16>>,
     <<"INCOMODIDAD_DEFECAR", "DIGESTIVO", 14>>,
     <<"PROTRUSION_ANAL", "DIGESTIVO", 18>>,
     <<"DOLOR_DEFECAR", "DIGESTIVO", 16>>,
     <<"HINCHAZON_LABIOS", "DERMATOLOGICO", 19>>,
     <<"PIEL_AGRIETADA", "DERMATOLOGICO", 13>>,
     <<"OLOR_DESAGRADABLE_PIEL", "DERMATOLOGICO", 14>>,
     <<"DIFICULTAD_MOVIMIENTO", "MUSCULAR", 17>>,
     <<"DOLOR_MOVIMIENTO", "MUSCULAR", 16>>,
     <<"FATIGA_OCULAR", "OFTALMOLOGICO", 11>>,
     <<"DIFICULTAD_LEER", "OFTALMOLOGICO", 14>>,
     <<"OJOS_SALTONES", "OFTALMOLOGICO", 22>>,
     <<"UNAS_QUEBRADIZAS", "DERMATOLOGICO", 9>>,
     <<"PERDIDA_CABELLO", "DERMATOLOGICO", 13>>,
     <<"MAREOS_LEVES", "NEUROLOGICO", 10>>,
     <<"DOLOR_SENTARSE", "MUSCULAR", 15>>, <<"FIEBRE_BAJA", "GENERAL", 12>>,
     <<"SATURACION_BAJA", "RESPIRATORIO", 30>>}

\* KnowledgeBase.diseases after construction: the Disease records in
\* registration order
ShippedDiseases ==
    <<
      [id |-> "GRIPE", urgency |-> "AUTOCUIDADO",
       required_symptoms |->
         {"FATIGA", "FIEBRE"},
       common_symptoms |->
         {"DOLOR_ARTICULAR", "DOLOR_CABEZA", "DOLOR_GARGANTA",
          "DOLOR_MUSCULAR", "ESCALOFRIOS", "MALESTAR_GENERAL", "SUDORACION",
          "TOS_SECA"},
       optional_symptoms |->
         {"CONGESTION_NASAL", "DEBILIDAD", "DOLOR_PECHO", "ESCALOFRIOS_NOCHE",
          "ESTORNUDOS", "NAUSEAS", "PERDIDA_APETITO", "SUDORES_NOCTURNOS"},
       excluding_symptoms |->
         {"DIARREA", "ERUPCION", "PICAZON_PIEL"}],
      [id |-> "RESFRIADO", urgency |-> "AUTOCUIDADO",
       required_symptoms |->
         {"CONGESTION_NASAL"},
       common_symptoms |->
         {"DOLOR_GARGANTA", "ESTORNUDOS", "GARGANTA_SECA",
          "IRRITACION_GARGANTA", "SECRECION_NASAL", "TOS_SECA"},
       optional_symptoms |->
         {"DOLOR_CABEZA", "FATIGA", "LAGRIMEO", "MALESTAR_GENERAL",
          "OJOS_ROJOS", "PERDIDA_GUSTO", "PERDIDA_OLFATO", "PICAZON_NARIZ"},
       excluding_symptoms |->
         {"FIEBRE"}],
      [id |-> "BRONQUITIS", urgency |-> "CONSULTA_PROGRAMADA",
       required_symptoms |->
         {"TOS_PRODUCTIVA"},
       common_symptoms |->
         {"DIFICULTAD_RESPIRAR", "DOLOR_PECHO", "FATIGA", "OPRESION_PECHO",
          "RESPIRACION_SUPERFICIAL", "SIBILANCIAS"},
       optional_symptoms |->
         {"CONGESTION_NASAL", "DOLOR_CABEZA", "DOLOR_GARGANTA", "ESCALOFRIOS",
          "FIEBRE", "MALESTAR_GENERAL", "SUDORACION"},
       excluding_symptoms |->
         {}],
      [id |-> "FARINGITIS", urgency |-> "CONSULTA_PROGRAMADA",
       required_symptoms |->
         {"DOLOR_GARGANTA"},
       common_symptoms |->
         {"DIFICULTAD_TRAGAR", "DOLOR_CABEZA", "FIEBRE",
          "GANGLIOS_INFLAMADOS", "HINCHAZON_GARGANTA", "IRRITACION_GARGANTA"},
       optional_symptoms |->
         {"DOLOR_MUSCULAR", "DOLOR_OIDO", "FATIGA", "MAL_ALIENTO",
          "MANCHAS_GARGANTA", "PERDIDA_VOZ", "RONQUERA", "TOS_SECA"},
       excluding_symptoms |->
         {"SIBILANCIAS", "TOS_PRODUCTIVA"}],
      [id |-> "SINUSITIS", urgency |-> "CONSULTA_PROGRAMADA",
       required_symptoms |->
         {"CONGESTION_NASAL", "DOLOR_CABEZA"},
       common_symptoms |->
         {"DOLOR_FACIAL", "PERDIDA_OLFATO", "PRESION_FACIAL",
          "SECRECION_NASAL", "TOS_PRODUCTIVA"},
       optional_symptoms |->
         {"DOLOR_CUELLO", "DOLOR_DENTAL", "DOLOR_OIDO", "FATIGA", "FIEBRE",
          "MAL_ALIENTO", "SENSIBILIDAD_DENTAL"},
       excluding_symptoms |->
         {}],
      [id |-> "ASMA", urgency |-> "CONSULTA_URGENTE",
       required_symptoms |->
         {"DIFICULTAD_RESPIRAR", "SIBILANCIAS"},
       common_symptoms |->
         {"OPRESION_PECHO", "RESPIRACION_RAPIDA", "RESPIRACION_SUPERFICIAL",
          "TOS_SECA"},
       optional_symptoms |->
         {"ANSIEDAD", "FATIGA", "PALPITACIONES", "SUDORACION"},
       excluding_symptoms |->
         {"FIEBRE", "TOS_PRODUCTIVA"}],
      [id |-> "NEUMONIA", urgency |-> "EMERGENCIA",
       required_symptoms |->
         {"DIFICULTAD_RESPIRAR", "FIEBRE", "TOS_PRODUCTIVA"},
       common_symptoms |->
         {"DOLOR_PECHO", "ESCALOFRIOS", "EXPECTORACION_SANGRE", "FATIGA",
          "RESPIRACION_RAPIDA", "SUDORACION"},
       optional_symptoms |->
         {"CONFUSION", "DEBILIDAD", "DOLOR_MUSCULAR", "MALESTAR_GENERAL",
          "NAUSEAS", "PALIDEZ", "VOMITO"},
       excluding_symptoms |->
         {}],
      [id |-> "GASTRITIS", urgency |-> "CONSULTA_PROGRAMADA",
       required_symptoms |->
         {"ACIDEZ", "DOLOR_ABDOMINAL"},
       common_symptoms |->
         {"ERUCTOS", "HINCHAZON", "NAUSEAS", "PERDIDA_APETITO",
          "REGURGITACION", "SENSACION_PLENITUD"},
       optional_symptoms |->
         {"MALESTAR_GENERAL", "SABOR_AMARGO", "SALIVACION_EXCESIVA", "VOMITO"},
       excluding_symptoms |->
         {"DIARREA", "FIEBRE", "SANGRE_HECES"}],
      [id |-> "GASTROENTERITIS", urgency |-> "CONSULTA_PROGRAMADA",
       required_symptoms |->
         {"DIARREA"},
       common_symptoms |->
         {"CALAMBRES_ABDOMINALES", "DOLOR_ABDOMINAL", "FIEBRE", "NAUSEAS",
          "VOMITO"},
       optional_symptoms |->
         {"BOCA_SECA", "DEBILIDAD", "DESHIDRATACION", "DOLOR_CABEZA",
          "ESCALOFRIOS", "FATIGA", "MALESTAR_GENERAL", "PERDIDA_APETITO"},
       excluding_symptoms |->
         {}],
      [id |-> "REFLUJO", urgency |-> "CONSULTA_PROGRAMADA",
       required_symptoms |->
         {"ACIDEZ", "REGURGITACION"},
       common_symptoms |->
         {"DIFICULTAD_TRAGAR", "DOLOR_PECHO", "ERUCTOS", "SABOR_AMARGO",
          "SALIVACION_EXCESIVA"},
       optional_symptoms |->
         {"DOLOR_GARGANTA", "IRRITACION_GARGANTA", "NAUSEAS", "RONQUERA",
          "TOS_SECA"},
       excluding_symptoms |->
         {"DIARREA", "FIEBRE"}],
      [id |-> "SII", urgency |-> "CONSULTA_PROGRAMADA",
       required_symptoms |->
         {"DOLOR_ABDOMINAL"},
       common_symptoms |->
         {"CALAMBRES_ABDOMINALES", "DIARREA", "ESTRENIMIENTO", "GASES",
          "HINCHAZON"},
       optional_symptoms |->
         {"FATIGA", "NAUSEAS", "SENSACION_EVACUACION_INCOMPLETA",
          "URGENCIA_DEFECACION"},
       excluding_symptoms |->
         {"FIEBRE", "PERDIDA_PESO", "SANGRE_HECES"}],
      [id |-> "INTOXICACION", urgency |-> "CONSULTA_URGENTE",
       required_symptoms |->
         {"DIARREA", "NAUSEAS", "VOMITO"},
       common_symptoms |->
         {"CALAMBRES_ABDOMINALES", "DOLOR_ABDOMINAL", "ESCALOFRIOS", "FIEBRE"},
       optional_symptoms |->
         {"DEBILIDAD", "DESHIDRATACION", "DOLOR_CABEZA", "FATIGA", "MAREOS",
          "SUDORACION"},
       excluding_symptoms |->
         {}],
      [id |-> "MIGRANA", urgency |-> "CONSULTA_PROGRAMADA",
       required_symptoms |->
         {"DOLOR_CABEZA"},
       common_symptoms |->
         {"MAREOS", "NAUSEAS", "SENSIBILIDAD_LUZ", "SENSIBILIDAD_RUIDO",
          "VISION_BORROSA"},
       optional_symptoms |->
         {"CONFUSION", "FATIGA", "IRRITABILIDAD", "PUNTOS_VISION",
          "SENSIBILIDAD_LUZ_OJOS", "VISION_DOBLE", "VOMITO"},
       excluding_symptoms |->
         {"CONGESTION_NASAL", "FIEBRE", "TOS_PRODUCTIVA"}],
      [id |-> "CEFALEA_TENSIONAL", urgency |-> "AUTOCUIDADO",
       required_symptoms |->
         {"DOLOR_CABEZA"},
       common_symptoms |->
         {"DIFICULTAD_CONCENTRACION", "DOLOR_CUELLO", "FATIGA", "RIGIDEZ"},
       optional_symptoms |->
         {"DOLOR_HOMBRO", "INSOMNIO", "IRRITABILIDAD", "MAREOS_LEVES",
          "SENSIBILIDAD_LUZ"},
       excluding_symptoms |->
         {"FIEBRE", "NAUSEAS", "VOMITO"}],
      [id |-> "VERTIGO", urgency |-> "CONSULTA_URGENTE",
       required_symptoms |->
         {"MAREOS", "VERTIGO"},
       common_symptoms |->
         {"NAUSEAS", "PERDIDA_EQUILIBRIO", "VOMITO", "ZUMBIDO_OIDOS"},
       optional_symptoms |->
         {"CONGESTION_OIDO", "FATIGA", "PALIDEZ", "PERDIDA_AUDICION",
          "SUDORACION"},
       excluding_symptoms |->
         {"DOLOR_CABEZA_INTENSO", "FIEBRE"}],
      [id |-> "ANSIEDAD", urgency |-> "CONSULTA_URGENTE",
       required_symptoms |->
         {"ANSIEDAD"},
       common_symptoms |->
         {"DIFICULTAD_RESPIRAR", "MAREOS", "PALPITACIONES", "SUDORACION",
          "TAQUICARDIA", "TEMBLOR"},
       optional_symptoms |->
         {"CONFUSION", "DESMAYO", "DOLOR_PECHO", "ENTUMECIMIENTO",
          "ESCALOFRIOS", "HORMIGUEO", "NAUSEAS", "SOFOCAMIENTO"},
       excluding_symptoms |->
         {"FIEBRE", "TOS_PRODUCTIVA"}],
      [id |-> "HIPERTENSION", urgency |-> "EMERGENCIA",
       required_symptoms |->
         {"PRESION_ALTA"},
       common_symptoms |->
         {"DOLOR_CABEZA", "MAREOS", "PALPITACIONES", "VISION_BORROSA",
          "ZUMBIDO_OIDOS"},
       optional_symptoms |->
         {"ANSIEDAD", "CONFUSION", "DIFICULTAD_RESPIRAR", "DOLOR_PECHO",
          "NAUSEAS", "SUDORACION"},
       excluding_symptoms |->
         {}],
      [id |-> "ARRITMIA", urgency |-> "EMERGENCIA",
       required_symptoms |->
         {"LATIDO_IRREGULAR", "PALPITACIONES"},
       common_symptoms |->
         {"DEBILIDAD", "DIFICULTAD_RESPIRAR", "DOLOR_PECHO", "FATIGA",
          "MAREOS"},
       optional_symptoms |->
         {"ANSIEDAD", "CONFUSION", "DESMAYO", "PALIDEZ", "SUDORACION"},
       excluding_symptoms |->
         {"FIEBRE", "TOS_PRODUCTIVA"}],
      [id |-> "ITU", urgency |-> "CONSULTA_URGENTE",
       required_symptoms |->
         {"DOLOR_ORINAR"},
       common_symptoms |->
         {"FRECUENCIA_URINARIA", "OLOR_FUERTE_ORINA", "ORINA_TURBIA",
          "URGENCIA_URINARIA"},
       optional_symptoms |->
         {"DOLOR_ABDOMINAL", "DOLOR_ESPALDA", "ESCALOFRIOS", "FIEBRE",
          "ORINA_OSCURA", "SANGRE_ORINA"},
       excluding_symptoms |->
         {"CONGESTION_NASAL", "TOS_PRODUCTIVA"}],
      [id |-> "CALCULOS_RENALES", urgency |-> "EMERGENCIA",
       required_symptoms |->
         {"DOLOR_ABDOMINAL", "DOLOR_ESPALDA"},
       common_symptoms |->
         {"FRECUENCIA_URINARIA", "NAUSEAS", "SANGRE_ORINA",
          "URGENCIA_URINARIA", "VOMITO"},
       optional_symptoms |->
         {"DIFICULTAD_ORINAR", "ESCALOFRIOS", "FIEBRE", "ORINA_TURBIA",
          "SUDORACION"},
       excluding_symptoms |->
         {}],
      [id |-> "CONJUNTIVITIS", urgency |-> "CONSULTA_PROGRAMADA",
       required_symptoms |->
         {"OJOS_ROJOS"},
       common_symptoms |->
         {"HINCHAZON_PARPADOS", "LAGRIMEO", "PICAZON_OJOS", "SECRECION_OCULAR"},
       optional_symptoms |->
         {"DOLOR_OJOS", "OJO_SECO", "SENSIBILIDAD_LUZ_OJOS", "VISION_BORROSA"},
       excluding_symptoms |->
         {"FIEBRE", "TOS_PRODUCTIVA"}],
      [id |-> "OJO_SECO", urgency |-> "CONSULTA_PROGRAMADA",
       required_symptoms |->
         {"OJO_SECO"},
       common_symptoms |->
         {"LAGRIMEO", "OJOS_ROJOS", "PICAZON_OJOS", "SENSIBILIDAD_LUZ_OJOS",
          "VISION_BORROSA"},
       optional_symptoms |->
         {"DIFICULTAD_LEER", "DOLOR_OJOS", "FATIGA_OCULAR"},
       excluding_symptoms |->
         {"FIEBRE", "SECRECION_OCULAR"}],
      [id |-> "DERMATITIS", urgency |-> "CONSULTA_PROGRAMADA",
       required_symptoms |->
         {"ERUPCION", "PICAZON_PIEL"},
       common_symptoms |->
         {"DESCAMACION", "ENROJECIMIENTO", "INFLAMACION_PIEL", "PIEL_SECA"},
       optional_symptoms |->
         {"DOLOR_PIEL", "LESIONES_PIEL", "PIEL_AGRIETADA"},
       excluding_symptoms |->
         {"DOLOR_ARTICULAR", "FIEBRE"}],
      [id |-> "URTICARIA", urgency |-> "CONSULTA_URGENTE",
       required_symptoms |->
         {"PICAZON_PIEL", "URTICARIA"},
       common_symptoms |->
         {"ENROJECIMIENTO", "ERUPCION", "HINCHAZON_PIEL"},
       optional_symptoms |->
         {"DIFICULTAD_RESPIRAR", "HINCHAZON_CARA", "HINCHAZON_LABIOS",
          "MAREOS"},
       excluding_symptoms |->
         {"FIEBRE"}],
      [id |-> "HONGOS_PIEL", urgency |-> "CONSULTA_PROGRAMADA",
       required_symptoms |->
         {"ERUPCION", "PICAZON_PIEL"},
       common_symptoms |->
         {"DESCAMACION", "ENROJECIMIENTO", "LESIONES_PIEL",
          "OLOR_DESAGRADABLE"},
       optional_symptoms |->
         {"AMPOLLAS", "DOLOR_PIEL", "PIEL_AGRIETADA"},
       excluding_symptoms |->
         {"DOLOR_ARTICULAR", "FIEBRE"}],
      [id |-> "LUMBALGIA", urgency |-> "CONSULTA_PROGRAMADA",
       required_symptoms |->
         {"DOLOR_ESPALDA"},
       common_symptoms |->
         {"DIFICULTAD_MOVIMIENTO", "DOLOR_MUSCULAR", "ESPASMOS", "RIGIDEZ"},
       optional_symptoms |->
         {"DEBILIDAD", "DOLOR_PIERNAS", "ENTUMECIMIENTO", "HORMIGUEO"},
       excluding_symptoms |->
         {"FIEBRE", "PERDIDA_PESO"}],
      [id |-> "ARTRITIS", urgency |-> "CONSULTA_PROGRAMADA",
       required_symptoms |->
         {"DOLOR_ARTICULAR", "RIGIDEZ"},
       common_symptoms |->
         {"CALOR_LOCAL", "DIFICULTAD_MOVIMIENTO", "ENROJECIMIENTO",
          "HINCHAZON_ARTICULAR"},
       optional_symptoms |->
         {"DOLOR_MUSCULAR", "FATIGA", "FIEBRE_BAJA", "PERDIDA_APETITO"},
       excluding_symptoms |->
         {}],
      [id |-> "TENDINITIS", urgency |-> "CONSULTA_PROGRAMADA",
       required_symptoms |->
         {"DOLOR_ARTICULAR"},
       common_symptoms |->
         {"DOLOR_MOVIMIENTO", "DOLOR_MUSCULAR", "HINCHAZON", "RIGIDEZ"},
       optional_symptoms |->
         {"CALOR_LOCAL", "DEBILIDAD", "ENROJECIMIENTO"},
       excluding_symptoms |->
         {"ERUPCION", "FIEBRE"}],
      [id |-> "RINITIS_ALERGICA", urgency |-> "AUTOCUIDADO",
       required_symptoms |->
         {"CONGESTION_NASAL", "ESTORNUDOS"},
       common_symptoms |->
         {"LAGRIMEO", "OJOS_ROJOS", "PICAZON_NARIZ", "PICAZON_OJOS",
          "SECRECION_NASAL"},
       optional_symptoms |->
         {"DOLOR_CABEZA", "FATIGA", "IRRITACION_GARGANTA", "PERDIDA_OLFATO",
          "TOS_SECA"},
       excluding_symptoms |->
         {"DOLOR_GARGANTA_INTENSO", "FIEBRE"}],
      [id |-> "ALERGIA_ALIMENTARIA", urgency |-> "EMERGENCIA",
       required_symptoms |->
         {"PICAZON_PIEL", "URTICARIA"},
       common_symptoms |->
         {"DIARREA", "DOLOR_ABDOMINAL", "HINCHAZON_CARA", "HINCHAZON_LABIOS",
          "NAUSEAS", "VOMITO"},
       optional_symptoms |->
         {"DIFICULTAD_RESPIRAR", "HINCHAZON_GARGANTA", "MAREOS",
          "PALPITACIONES", "SIBILANCIAS"},
       excluding_symptoms |->
         {"FIEBRE"}],
      [id |-> "ANEMIA", urgency |-> "CONSULTA_PROGRAMADA",
       required_symptoms |->
         {"FATIGA", "PALIDEZ"},
       common_symptoms |->
         {"DEBILIDAD", "DIFICULTAD_RESPIRAR", "DOLOR_CABEZA", "MAREOS",
          "PALPITACIONES"},
       optional_symptoms |->
         {"EXTREMIDADES_FRIAS", "IRRITABILIDAD", "PERDIDA_CABELLO",
          "UNAS_QUEBRADIZAS"},
       excluding_symptoms |->
         {"FIEBRE", "TOS_PRODUCTIVA"}],
      [id |-> "DESHIDRATACION", urgency |-> "CONSULTA_URGENTE",
       required_symptoms |->
         {"BOCA_SECA", "DESHIDRATACION"},
       common_symptoms |->
         {"AUMENTO_SED", "DOLOR_CABEZA", "FATIGA", "MAREOS", "ORINA_OSCURA"},
       optional_symptoms |->
         {"CALAMBRES", "CONFUSION", "DEBILIDAD", "PALPITACIONES",
          "PRESION_BAJA"},
       excluding_symptoms |->
         {}],
      [id |-> "OTITIS", urgency |-> "CONSULTA_URGENTE",
       required_symptoms |->
         {"DOLOR_OIDO"},
       common_symptoms |->
         {"CONGESTION_OIDO", "FIEBRE", "IRRITABILIDAD", "PERDIDA_AUDICION"},
       optional_symptoms |->
         {"DOLOR_CABEZA", "MAREOS", "NAUSEAS", "SECRECION_OIDO",
          "ZUMBIDO_OIDOS"},
       excluding_symptoms |->
         {"ERUPCION"}],
      [id |-> "MONONUCLEOSIS", urgency |-> "CONSULTA_URGENTE",
       required_symptoms |->
         {"DOLOR_GARGANTA", "FATIGA", "FIEBRE"},
       common_symptoms |->
         {"DOLOR_CABEZA", "DOLOR_MUSCULAR", "GANGLIOS_INFLAMADOS",
          "HINCHAZON_GARGANTA", "PERDIDA_APETITO"},
       optional_symptoms |->
         {"DEBILIDAD", "DOLOR_ABDOMINAL", "ERUPCION", "HINCHAZON_CUELLO",
          "SUDORES_NOCTURNOS"},
       excluding_symptoms |->
         {}],
      [id |-> "COVID19", urgency |-> "CONSULTA_URGENTE",
       required_symptoms |->
         {"FIEBRE", "TOS_SECA"},
       common_symptoms |->
         {"DOLOR_CABEZA", "DOLOR_GARGANTA", "DOLOR_MUSCULAR", "FATIGA",
          "PERDIDA_GUSTO", "PERDIDA_OLFATO"},
       optional_symptoms |->
         {"CONFUSION", "CONGESTION_NASAL", "DIARREA", "DIFICULTAD_RESPIRAR",
          "ESCALOFRIOS", "NAUSEAS", "VOMITO"},
       excluding_symptoms |->
         {}],
      [id |-> "HIPOGLUCEMIA", urgency |-> "EMERGENCIA",
       required_symptoms |->
         {"MAREOS", "SUDORACION"},
       common_symptoms |->
         {"ANSIEDAD", "DEBILIDAD", "FATIGA", "HAMBRE_EXTREMA",
          "PALPITACIONES", "TEMBLOR"},
       optional_symptoms |->
         {"CONFUSION", "DOLOR_CABEZA", "IRRITABILIDAD", "PALIDEZ",
          "VISION_BORROSA"},
       excluding_symptoms |->
         {"FIEBRE"}],
      [id |-> "HIPERTIROIDISMO", urgency |-> "CONSULTA_PROGRAMADA",
       required_symptoms |->
         {"PALPITACIONES", "PERDIDA_PESO"},
       common_symptoms |->
         {"ANSIEDAD", "FATIGA", "INTOLERANCIA_CALOR", "SUDORACION",
          "TAQUICARDIA", "TEMBLOR"},
       optional_symptoms |->
         {"AUMENTO_APETITO", "DEBILIDAD", "DIARREA", "INSOMNIO",
          "IRRITABILIDAD", "OJOS_SALTONES"},
       excluding_symptoms |->
         {"FIEBRE"}],
      [id |-> "HEMORROIDES", urgency |-> "CONSULTA_PROGRAMADA",
       required_symptoms |->
         {"SANGRE_HECES"},
       common_symptoms |->
         {"DOLOR_ANAL", "HINCHAZON_ANAL", "INCOMODIDAD_DEFECAR",
          "PICAZON_ANAL"},
       optional_symptoms |->
         {"DOLOR_SENTARSE", "PROTRUSION_ANAL"},
       excluding_symptoms |->
         {"FIEBRE", "PERDIDA_PESO"}]
    >>

\* CaseGenerator.test_cases: each case with the add_symptom calls that build
\* its report, <<id, severity, duration, note>>
ShippedCases ==
    <<
      [id |-> "CASE_001", expected_diagnosis |-> "GRIPE",
       adds |->
         << <<"FIEBRE", 3, 3, "39.2 grados C">>, <<"FATIGA", 3, 3, "">>,
            <<"DOLOR_CABEZA", 2, 3, "">>, <<"DOLOR_MUSCULAR", 3, 3, "">>,
            <<"TOS_SECA", 2, 2, "">>, <<"ESCALOFRIOS", 3, 3, "">>,
            <<"SUDORACION", 2, 2, "">> >>],
      [id |-> "CASE_002", expected_diagnosis |-> "RESFRIADO",
       adds |->
         << <<"CONGESTION_NASAL", 2, 4, "">>, <<"ESTORNUDOS", 2, 4, "">>,
            <<"DOLOR_GARGANTA", 1, 3, "">>, <<"TOS_SECA", 1, 2, "">>,
            <<"DOLOR_CABEZA", 1, 3, "">> >>],
      [id |-> "CASE_003", expected_diagnosis |-> "GASTRITIS",
       adds |->
         << <<"DOLOR_ABDOMINAL", 3, 2, "Dolor en epigastrio">>,
            <<"ACIDEZ", 3, 2, "">>, <<"NAUSEAS", 2, 2, "">>,
            <<"PERDIDA_APETITO", 2, 2, "">>, <<"HINCHAZON", 2, 2, "">> >>],
      [id |-> "CASE_004", expected_diagnosis |-> "GASTROENTERITIS",
       adds |->
         << <<"DIARREA", 3, 2, "5-6 evacuaciones al dia">>,
            <<"VOMITO", 2, 1, "">>, <<"NAUSEAS", 3, 2, "">>,
            <<"DOLOR_ABDOMINAL", 2, 2, "">>,
            <<"FIEBRE", 1, 2, "37.8 grados C">>, <<"FATIGA", 2, 2, "">> >>],
      [id |-> "CASE_005", expected_diagnosis |-> "BRONQUITIS",
       adds |->
         << <<"TOS_PRODUCTIVA", 3, 5, "Flema amarillenta">>,
            <<"DIFICULTAD_RESPIRAR", 2, 4, "">>,
            <<"DOLOR_PECHO", 2, 4, "Al toser">>, <<"FATIGA", 2, 5, "">>,
            <<"SIBILANCIAS", 1, 3, "">>, <<"FIEBRE", 1, 3, "37.5 grados C">> >>],
      [id |-> "CASE_006", expected_diagnosis |-> "FARINGITIS",
       adds |->
         << <<"DOLOR_GARGANTA", 3, 2, "Dolor al tragar">>,
            <<"FIEBRE", 2, 2, "38.5 grados C">>, <<"DOLOR_CABEZA", 2, 2, "">>,
            <<"FATIGA", 2, 2, "">>, <<"DOLOR_MUSCULAR", 1, 2, "">> >>],
      [id |-> "CASE_007", expected_diagnosis |-> "SINUSITIS",
       adds |->
         << <<"CONGESTION_NASAL", 3, 7, "">>,
            <<"DOLOR_CABEZA", 3, 6, "Presion facial">>,
            <<"TOS_PRODUCTIVA", 2, 5, "">>, <<"FATIGA", 2, 6, "">>,
            <<"FIEBRE", 1, 4, "37.6 grados C">> >>],
      [id |-> "CASE_008", expected_diagnosis |-> "MIGRANA",
       adds |->
         << <<"DOLOR_CABEZA", 4, 1, "Pulsatil, unilateral">>,
            <<"NAUSEAS", 3, 1, "">>, <<"VISION_BORROSA", 2, 1, "">>,
            <<"MAREOS", 2, 1, "">>, <<"FATIGA", 3, 1, "">> >>],
      [id |-> "CASE_009", expected_diagnosis |-> "ITU",
       adds |->
         << <<"DOLOR_ORINAR", 3, 3, "Ardor intenso">>,
            <<"FRECUENCIA_URINARIA", 3, 3, "">>,
            <<"DOLOR_ABDOMINAL", 2, 2, "Parte baja">>,
            <<"FIEBRE", 1, 2, "37.9 grados C">> >>],
      [id |-> "CASE_010", expected_diagnosis |-> "CONJUNTIVITIS",
       adds |->
         << <<"OJOS_ROJOS", 2, 2, "">>, <<"PICAZON_OJOS", 2, 2, "">>,
            <<"LAGRIMEO", 2, 2, "">>, <<"VISION_BORROSA", 1, 1, "">> >>],
      [id |-> "CASE_011", expected_diagnosis |-> "BRONQUITIS",
       adds |->
         << <<"FIEBRE", 3, 5, "">>, <<"TOS_PRODUCTIVA", 3, 6, "">>,
            <<"DIFICULTAD_RESPIRAR", 2, 5, "">>,
            <<"DOLOR_MUSCULAR", 2, 5, "">>, <<"FATIGA", 3, 6, "">>,
            <<"DOLOR_PECHO", 2, 4, "">>, <<"ESCALOFRIOS", 2, 5, "">> >>],
      [id |-> "CASE_012", expected_diagnosis |-> "RESFRIADO",
       adds |->
         << <<"FATIGA", 1, 3, "">>, <<"DOLOR_CABEZA", 1, 2, "">>,
            <<"MALESTAR_GENERAL", 1, 3, "">> >>]
    >>

(***************************************************************************)
(* Symptom catalog (SymptomRegistry).                                      *)
(***************************************************************************)
\* SymptomRegistry.symptoms after construction: id -> <<id, category, weight>>
registry_symptoms ==
    [id \in {r[1] : r \in SymptomRows} |-> CHOOSE r \in SymptomRows : r[1] = id]

\* SymptomRegistry.get_symptom(id) is not None
registered(symptom_id) == symptom_id \in DOMAIN registry_symptoms

severity_weight(symptom_id) == Q(registry_symptoms[symptom_id][3], 10)

\* SeverityLevel: LEVE = 1, MODERADO = 2, GRAVE = 3, CRITICO = 4
SeverityLevel == 1..4
MODERADO == 2

\* Python's None where a severity level is expected
NoSeverity == 0

Urgency == {"AUTOCUIDADO", "CONSULTA_PROGRAMADA", "CONSULTA_URGENTE", "EMERGENCIA"}

(***************************************************************************)
(* Patient report (PatientSymptoms): a record of the four fields; the      *)
(* dicts are functions whose domain is the set of keys.                    *)
(***************************************************************************)
DictPut(f, k, val) == [x \in (DOMAIN f) \cup {k} |-> IF x = k THEN val ELSE f[x]]
DictPop(f, k) == [x \in (DOMAIN f) \ {k} |-> f[x]]

PatientSymptoms ==
    [symptoms |-> {}, severity_levels |-> <<>>, duration_days |-> <<>>,
     notes |-> <<>>]

\* add_symptom that stores a duration only when one is given (duration > 0)
add_symptom_skipping_duration(ps, symptom_id, severity, duration, note) ==
    [symptoms |-> ps.symptoms \cup {symptom_id},
     severity_levels |-> DictPut(ps.severity_levels, symptom_id, severity),
     duration_days |-> IF duration > 0
                       THEN DictPut(ps.duration_days, symptom_id, duration)
                       ELSE ps.duration_days,
     notes |-> IF note # "" THEN DictPut(ps.notes, symptom_id, note) ELSE ps.notes]

add_symptom(ps, symptom_id, severity, duration, note) ==
    [symptoms |-> ps.symptoms \cup {symptom_id},
     severity_levels |-> DictPut(ps.severity_levels, symptom_id, severity),
     duration_days |-> DictPut(ps.duration_days, symptom_id, duration),
     notes |-> IF note # "" THEN DictPut(ps.notes, symptom_id, note) ELSE ps.notes]

\* remove_symptom that pops the three dicts and leaves the id in the set
remove_symptom_keeps_id(ps, symptom_id) ==
    [symptoms |-> ps.symptoms,
     severity_levels |-> DictPop(ps.severity_levels, symptom_id),
     duration_days |-> DictPop(ps.duration_days, symptom_id),
     notes |-> DictPop(ps.notes, symptom_id)]

remove_symptom(ps, symptom_id) ==
    [symptoms |-> ps.symptoms \ {symptom_id},
     severity_levels |-> DictPop(ps.severity_levels, symptom_id),
     duration_days |-> DictPop(ps.duration_days, symptom_id),
     notes |-> DictPop(ps.notes, symptom_id)]

clear(ps) ==
    [symptoms |-> {}, severity_levels |-> <<>>, duration_days |-> <<>>,
     notes |-> <<>>]

get_severity(ps, symptom_id) ==
    IF symptom_id \in DOMAIN ps.severity_levels
    THEN ps.severity_levels[symptom_id] ELSE NoSeverity

get_duration(ps, symptom_id) ==
    IF symptom_id \in DOMAIN ps.duration_days
    THEN ps.duration_days[symptom_id] ELSE 0

has_symptom(ps, symptom_id) == symptom_id \in ps.symptoms

get_symptom_count(ps) == Cardinality(ps.symptoms)

\* sum of f[x] over the finite set S
RECURSIVE SumOver(_, _)
SumOver(S, f) ==
    IF S = {} THEN 0
    ELSE LET x == CHOOSE y \in S : TRUE IN f[x] + SumOver(S \ {x}, f)

\* The severity weights are multiples of 0.1: the sum is taken in tenths.
calculate_severity_score(ps) ==
    LET known == {s \in ps.symptoms : registered(s)}
        term == [s \in known |->
                   registry_symptoms[s][3] *
                   (IF s \in DOMAIN ps.severity_levels
                    THEN ps.severity_levels[s] ELSE MODERADO)]
    IN Q(SumOver(known, term), 10)

\* the report a sequence of add_symptom calls <<id, severity, duration, note>>
\* builds, starting from ps
RECURSIVE AddAll(_, _)
AddAll(ps, adds) ==
    IF adds = <<>> THEN ps
    ELSE AddAll(add_symptom(ps, adds[1][1], adds[1][2], adds[1][3], adds[1][4]),
                Tail(adds))

(***************************************************************************)
(* Disease catalog (KnowledgeBase.diseases): the Disease records in        *)
(* registration order, one per id.                                         *)
(***************************************************************************)
RECURSIVE IndexOf(_, _, _)
IndexOf(ds, disease_id, i) ==
    IF i > Len(ds) THEN 0
    ELSE IF ds[i].id = disease_id THEN i
    ELSE IndexOf(ds, disease_id, i + 1)

\* self.diseases[disease.id] = disease: a known id keeps its position
register_disease(ds, disease) ==
    LET i == IndexOf(ds, disease.id, 1)
    IN IF i = 0 THEN Append(ds, disease) ELSE [ds EXCEPT ![i] = disease]

known_disease(ds, disease_id) == IndexOf(ds, disease_id, 1) # 0

\* KnowledgeBase.get_disease for a known id
get_disease(ds, disease_id) == ds[IndexOf(ds, disease_id, 1)]

get_all_diseases(ds) == ds

(***************************************************************************)
(* InferenceEngine.                                                        *)
(***************************************************************************)
WEIGHT_REQUIRED == Q(40, 100)
WEIGHT_COMMON == Q(35, 100)
WEIGHT_OPTIONAL == Q(15, 100)
WEIGHT_EXCLUDING == Q(10, 100)

\* a threshold low enough for the confidence of an early return
LOW_CONFIDENCE_THRESHOLD == Q(5, 100)

MIN_CONFIDENCE_THRESHOLD == Q(25, 100)
HIGH_CONFIDENCE_THRESHOLD == Q(70, 100)

\* The float literals of the engine.
ZERO == Q(0, 1)
ONE == Q(1, 1)
\* required_score < 0.5 and required_score * 0.3
REQUIRED_GATE == Q(5, 10)
GATE_FACTOR == Q(3, 10)
\* the score of an empty common or optional set; 0.15 per excluding symptom
NEUTRAL_SCORE == Q(5, 10)
EXCLUDING_STEP == Q(15, 100)
\* 0.8 + (avg_severity - 1) * 0.15 within 0.7 .. 1.3
SEVERITY_BASE == Q(8, 10)
SEVERITY_STEP == Q(15, 100)
SEVERITY_FLOOR == Q(7, 10)
SEVERITY_CEILING == Q(13, 10)
\* 0.85; avg_duration <= 7; 1.0 + ... * 0.02; 1.1 - ... * 0.015
DURATION_SHORT == Q(85, 100)
DURATION_WINDOW == Q(7, 1)
DURATION_RISE == Q(2, 100)
DURATION_LONG_BASE == Q(11, 10)
DURATION_DECAY == Q(15, 1000)
\* severity_score > 20
SEVERITY_ALERT == Q(20, 1)
\* confidence >= 0.8, >= 0.6, >= 0.4
TIER_HIGH == Q(8, 10)
TIER_MODERATE_HIGH == Q(6, 10)
TIER_MODERATE == Q(4, 10)
\* 0.7 * normalized + 0.3 * original
NORMALIZED_SHARE == Q(7, 10)
ORIGINAL_SHARE == Q(3, 10)
\* ... * 100 of backward_chain
HUNDRED == Q(100, 1)

\* the explanation of the early return
EXPLANATION_GATE == "No cumple con sintomas requeridos principales"

\* lines 168-173: the multiplier of an average severity
\* the multiplier centred as the comment of line 170 says: an average
\* severity of 2.0 gives 1.0
severity_multiplier_centred(avg_severity) ==
    QMax(SEVERITY_FLOOR, QMin(SEVERITY_CEILING,
         QAdd(ONE, QMul(QSub(avg_severity, Q(2, 1)), SEVERITY_STEP))))

severity_multiplier_of(avg_severity) ==
    QMax(SEVERITY_FLOOR,
         QMin(SEVERITY_CEILING,
              QAdd(SEVERITY_BASE, QMul(QSub(avg_severity, ONE), SEVERITY_STEP))))

_calculate_severity_multiplier(ps, matched_symptoms) ==
    LET with == {s \in matched_symptoms : get_severity(ps, s) # NoSeverity}
    IN IF matched_symptoms = {} THEN ONE
       ELSE IF Cardinality(with) = 0 THEN ONE
       ELSE severity_multiplier_of(
                Q(SumOver(with, [s \in with |-> get_severity(ps, s)]),
                  Cardinality(with)))

\* lines 196-203: the multiplier of an average duration
duration_multiplier_of(avg_duration) ==
    IF QLt(avg_duration, ONE) THEN DURATION_SHORT
    ELSE IF QLe(avg_duration, DURATION_WINDOW)
         THEN QAdd(ONE, QMul(QSub(avg_duration, ONE), DURATION_RISE))
    ELSE QSub(DURATION_LONG_BASE,
              QMul(QSub(avg_duration, DURATION_WINDOW), DURATION_DECAY))

_calculate_duration_multiplier(ps, matched_symptoms) ==
    LET with == {s \in matched_symptoms : get_duration(ps, s) > 0}
    IN IF matched_symptoms = {} THEN ONE
       ELSE IF Cardinality(with) = 0 THEN ONE
       ELSE duration_multiplier_of(
                Q(SumOver(with, [s \in with |-> get_duration(ps, s)]),
                  Cardinality(with)))

\* the severity alert raised at exactly 20 as well
_determine_risk_level_at_alert(disease, confidence, ps) ==
    IF disease.urgency = "EMERGENCIA" THEN "CRITICO"
    ELSE IF disease.urgency = "CONSULTA_URGENTE" THEN "ALTO"
    ELSE IF QLe(SEVERITY_ALERT, calculate_severity_score(ps)) THEN "ALTO"
    ELSE IF QLt(HIGH_CONFIDENCE_THRESHOLD, confidence) THEN "MODERADO"
    ELSE "BAJO"

_determine_risk_level(disease, confidence, ps) ==
    IF disease.urgency = "EMERGENCIA" THEN "CRITICO"
    ELSE IF disease.urgency = "CONSULTA_URGENTE" THEN "ALTO"
    ELSE IF QLt(SEVERITY_ALERT, calculate_severity_score(ps)) THEN "ALTO"
    ELSE IF QLt(HIGH_CONFIDENCE_THRESHOLD, confidence) THEN "MODERADO"
    ELSE "BAJO"

\* The explanation as the sequence of its parts; a part that lists symptom
\* names is <<text, set of the registered symptoms named>>.
_generate_explanation(disease, required_match, common_match, optional_match, excluding_match, confidence) ==
    LET names(S) == {s \in S : registered(s)}
        part(text, S) == IF names(S) # {} THEN << <<text, names(S)>> >> ELSE <<>>
        tier == IF QLe(TIER_HIGH, confidence) THEN "Alta probabilidad de diagnostico"
                ELSE IF QLe(TIER_MODERATE_HIGH, confidence) THEN "Probabilidad moderada-alta"
                ELSE IF QLe(TIER_MODERATE, confidence) THEN "Probabilidad moderada"
                ELSE "Probabilidad baja, considerar otras opciones"
    IN part("Presenta sintomas clave", required_match)
       \o part("Sintomas comunes presentes", common_match)
       \o part("Presenta sintomas atipicos", excluding_match)
       \o << <<tier, {}>> >>

required_score(disease, ps) ==
    IF disease.required_symptoms # {}
    THEN Q(Cardinality(disease.required_symptoms \cap ps.symptoms),
           Cardinality(disease.required_symptoms))
    ELSE ONE

\* the gate dropped; the gate taken at exactly 0.5 as well
gated_never(disease, ps) == FALSE
gated_at_half(disease, ps) == QLe(required_score(disease, ps), REQUIRED_GATE)

\* the early return of _evaluate_disease is taken
gated(disease, ps) == QLt(required_score(disease, ps), REQUIRED_GATE)

\* the weighted sum with an empty common or optional set scoring 0
weighted_confidence_no_fallback(disease, ps) ==
    LET score(S) == IF S # {} THEN Q(Cardinality(S \cap ps.symptoms), Cardinality(S))
                    ELSE ZERO
        excluding_penalty ==
            QMul(Q(Cardinality(disease.excluding_symptoms \cap ps.symptoms), 1),
                 EXCLUDING_STEP)
    IN QSub(QAdd(QAdd(QMul(WEIGHT_REQUIRED, required_score(disease, ps)),
                      QMul(WEIGHT_COMMON, score(disease.common_symptoms))),
                 QMul(WEIGHT_OPTIONAL, score(disease.optional_symptoms))),
            QMul(WEIGHT_EXCLUDING, excluding_penalty))

\* the weighted sum, before the multipliers
weighted_confidence(disease, ps) ==
    LET patient_symptom_ids == ps.symptoms
        common_match == disease.common_symptoms \cap patient_symptom_ids
        common_score == IF disease.common_symptoms # {}
                        THEN Q(Cardinality(common_match),
                               Cardinality(disease.common_symptoms))
                        ELSE NEUTRAL_SCORE
        optional_match == disease.optional_symptoms \cap patient_symptom_ids
        optional_score == IF disease.optional_symptoms # {}
                          THEN Q(Cardinality(optional_match),
                                 Cardinality(disease.optional_symptoms))
                          ELSE NEUTRAL_SCORE
        excluding_match == disease.excluding_symptoms \cap patient_symptom_ids
        excluding_penalty == QMul(Q(Cardinality(excluding_match), 1), EXCLUDING_STEP)
    IN QSub(QAdd(QAdd(QMul(WEIGHT_REQUIRED, required_score(disease, ps)),
                      QMul(WEIGHT_COMMON, common_score)),
                 QMul(WEIGHT_OPTIONAL, optional_score)),
            QMul(WEIGHT_EXCLUDING, excluding_penalty))

\* the weighted sum times the severity and duration multipliers
adjusted_confidence(disease, ps) ==
    LET matched == (disease.required_symptoms \cup disease.common_symptoms)
                       \cap ps.symptoms
    IN QMul(QMul(weighted_confidence(disease, ps),
                 _calculate_severity_multiplier(ps, matched)),
            _calculate_duration_multiplier(ps, matched))

\* the clamp left out
clamp_confidence_omitted(confidence) == confidence

\* max(0.0, min(1.0, confidence))
clamp_confidence(confidence) == QMax(ZERO, QMin(ONE, confidence))

\* the confidence of the early return
gated_confidence(disease, ps) == QMul(required_score(disease, ps), GATE_FACTOR)

\* lines 84-90: the DiagnosisResult of the early return
early_result(disease, ps) ==
    [disease |-> disease,
     confidence |-> gated_confidence(disease, ps),
     matched_symptoms |-> disease.required_symptoms \cap ps.symptoms,
     missing_key_symptoms |-> disease.required_symptoms \ ps.symptoms,
     explanation |-> << <<EXPLANATION_GATE, {}>> >>,
     risk_level |-> "BAJO"]

\* lines 130-148: the DiagnosisResult built from the final confidence
full_result(disease, ps, confidence) ==
    LET patient_symptom_ids == ps.symptoms
        required_match == disease.required_symptoms \cap patient_symptom_ids
        common_match == disease.common_symptoms \cap patient_symptom_ids
        optional_match == disease.optional_symptoms \cap patient_symptom_ids
        excluding_match == disease.excluding_symptoms \cap patient_symptom_ids
    IN [disease |-> disease,
        confidence |-> confidence,
        matched_symptoms |-> required_match \cup common_match \cup optional_match,
        missing_key_symptoms |-> disease.required_symptoms \ patient_symptom_ids,
        explanation |-> _generate_explanation(disease, required_match,
                            common_match, optional_match, excluding_match,
                            confidence),
        risk_level |-> _determine_risk_level(disease, confidence, ps)]

_evaluate_disease(disease, ps) ==
    IF gated(disease, ps)
    THEN early_result(disease, ps)
    ELSE full_result(disease, ps, clamp_confidence(adjusted_confidence(disease, ps)))

\* the sum of the confidences of a list of results
RECURSIVE SumConfidence(_, _)
SumConfidence(results, i) ==
    IF i > Len(results) THEN ZERO
    ELSE QAdd(results[i].confidence, SumConfidence(results, i + 1))

\* normalized = original * factor; 0.7 * normalized + 0.3 * original
blend(original, factor) ==
    QAdd(QMul(NORMALIZED_SHARE, QMul(original, factor)),
         QMul(ORIGINAL_SHARE, original))

\* lines 281-289 for the sum total of the confidences
normalize_by(results, total) ==
    IF QLt(ZERO, total)
    THEN [i \in 1..Len(results) |->
            [results[i] EXCEPT !.confidence =
                blend(results[i].confidence, QDiv(ONE, total))]]
    ELSE results

_normalize_confidences(results) ==
    IF results = <<>> THEN results
    ELSE normalize_by(results, SumConfidence(results, 1))

\* __lt__ that also holds of equal confidences
result_le(a, b) == QLe(a.confidence, b.confidence)

\* DiagnosisResult.__lt__
result_lt(a, b) == QLt(a.confidence, b.confidence)

\* list.sort(reverse = True): stable, descending by __lt__; r goes behind
\* every result that is not less than it.
RECURSIVE InsertDescending(_, _)
InsertDescending(sorted, r) ==
    IF sorted = <<>> THEN <<r>>
    ELSE IF result_lt(Head(sorted), r) THEN <<r>> \o sorted
    ELSE <<Head(sorted)>> \o InsertDescending(Tail(sorted), r)

RECURSIVE SortDescending(_, _)
SortDescending(results, i) ==
    IF i = 0 THEN <<>>
    ELSE InsertDescending(SortDescending(results, i - 1), results[i])

\* the threshold test left out: every diagnosis is appended
kept_always(diagnosis) == <<diagnosis>>

\* lines 58-59: a diagnosis is appended when it reaches the threshold
kept(diagnosis) ==
    IF QLe(MIN_CONFIDENCE_THRESHOLD, diagnosis.confidence)
    THEN <<diagnosis>> ELSE <<>>

\* the loop of diagnose: the results that reach the threshold, in catalog order
RECURSIVE Surviving(_, _, _)
Surviving(ds, ps, i) ==
    IF i > Len(ds) THEN <<>>
    ELSE kept(_evaluate_disease(ds[i], ps)) \o Surviving(ds, ps, i + 1)

\* the slice left out
TakeAll(results, max_results) == results

\* results[:max_results] for max_results >= 0
Take(results, max_results) ==
    SubSeq(results, 1, IF max_results < Len(results) THEN max_results ELSE Len(results))

\* the sort left out
sort_omitted(results) == results

\* results.sort(reverse = True)
sort_reverse(results) == SortDescending(results, Len(results))

\* the slice taken before the renormalization: total is the sum over the
\* returned results only
diagnose_normalizing_returned(ds, ps, max_results) ==
    _normalize_confidences(
        Take(sort_reverse(Surviving(get_all_diseases(ds), ps, 1)), max_results))

diagnose(ds, ps, max_results) ==
    Take(_normalize_confidences(sort_reverse(Surviving(get_all_diseases(ds), ps, 1))),
         max_results)

\* backward_chain without the check of the excluding symptoms
backward_chain_required_only(ds, target_disease_id, ps) ==
    IF ~known_disease(ds, target_disease_id)
    THEN <<FALSE, [text |-> "Enfermedad no encontrada en la base de conocimiento",
                   names |-> {}, common_percentage |-> ZERO]>>
    ELSE IF get_disease(ds, target_disease_id).required_symptoms \ ps.symptoms # {}
    THEN <<FALSE, [text |-> "Faltan sintomas requeridos",
                   names |-> {s \in get_disease(ds, target_disease_id).required_symptoms
                                        \ ps.symptoms : registered(s)},
                   common_percentage |-> ZERO]>>
    ELSE <<TRUE, [text |-> "Es posible. Cumple con todos los sintomas requeridos",
                  names |-> {}, common_percentage |-> ZERO]>>

\* backward_chain with the excluding symptoms checked before the required
backward_chain_excluding_first(ds, target_disease_id, ps) ==
    IF ~known_disease(ds, target_disease_id)
    THEN <<FALSE, [text |-> "Enfermedad no encontrada en la base de conocimiento",
                   names |-> {}, common_percentage |-> ZERO]>>
    ELSE IF get_disease(ds, target_disease_id).excluding_symptoms \cap ps.symptoms # {}
    THEN <<FALSE, [text |-> "Presenta sintomas que excluyen este diagnostico",
                   names |-> {s \in get_disease(ds, target_disease_id).excluding_symptoms
                                        \cap ps.symptoms : registered(s)},
                   common_percentage |-> ZERO]>>
    ELSE backward_chain_required_only(ds, target_disease_id, ps)

backward_chain(ds, target_disease_id, ps) ==
    IF ~known_disease(ds, target_disease_id)
    THEN <<FALSE, [text |-> "Enfermedad no encontrada en la base de conocimiento",
                   names |-> {}, common_percentage |-> ZERO]>>
    ELSE LET disease == get_disease(ds, target_disease_id)
             patient_symptom_ids == ps.symptoms
             missing_required == disease.required_symptoms \ patient_symptom_ids
             present_excluding == disease.excluding_symptoms \cap patient_symptom_ids
             common_match == disease.common_symptoms \cap patient_symptom_ids
             common_percentage ==
                 IF disease.common_symptoms # {}
                 THEN QMul(Q(Cardinality(common_match),
                             Cardinality(disease.common_symptoms)), HUNDRED)
                 ELSE ZERO
         IN IF missing_required # {}
            THEN <<FALSE, [text |-> "Faltan sintomas requeridos",
                           names |-> {s \in missing_required : registered(s)},
                           common_percentage |-> ZERO]>>
            ELSE IF present_excluding # {}
            THEN <<FALSE, [text |-> "Presenta sintomas que excluyen este diagnostico",
                           names |-> {s \in present_excluding : registered(s)},
                           common_percentage |-> ZERO]>>
            ELSE <<TRUE, [text |-> "Es posible. Cumple con todos los sintomas requeridos",
                          names |-> {},
                          common_percentage |-> common_percentage]>>
(***************************************************************************)
(* Inputs of the operations.                                               *)
(***************************************************************************)
\* Symptom ids a caller reports: two registered symptoms (weights 3.2 and
\* 2.4) and an id no catalog entry registers.
ReportedIds == {"PERDIDA_CONCIENCIA", "SANGRE_ORINA", "DOLOR_CABEZA_INTENSO"}

\* <<severity, duration>> a caller reports a symptom with: LEVE with no
\* duration, CRITICO at the end of the 1..7 day window, GRAVE far beyond it
ReportedLevels == {<<1, 0>>, <<4, 7>>, <<3, 100>>}

\* Diseases a caller registers: four required symptoms (two of them never
\* reported), no required symptom, and one required symptom beside a common
\* one and two excluding ones (one of them never reported).
SYN_A ==
    [id |-> "SYN_A", urgency |-> "EMERGENCIA",
     required_symptoms |-> {"PERDIDA_CONCIENCIA", "SANGRE_ORINA", "FIEBRE", "FATIGA"},
     common_symptoms |-> {}, optional_symptoms |-> {},
     excluding_symptoms |-> {"DOLOR_CABEZA_INTENSO"}]

SYN_B ==
    [id |-> "SYN_B", urgency |-> "AUTOCUIDADO",
     required_symptoms |-> {},
     common_symptoms |-> {"PERDIDA_CONCIENCIA"},
     optional_symptoms |-> {"SANGRE_ORINA"},
     excluding_symptoms |-> {}]

SYN_C ==
    [id |-> "SYN_C", urgency |-> "CONSULTA_URGENTE",
     required_symptoms |-> {"SANGRE_ORINA"},
     common_symptoms |-> {"DOLOR_CABEZA_INTENSO"},
     optional_symptoms |-> {},
     excluding_symptoms |-> {"PERDIDA_CONCIENCIA", "FIEBRE"}]

RegisteredInputs == {SYN_A, SYN_B, SYN_C}

\* most diseases a caller registers
MaxDiseases == 2

\* most symptoms reported at once
MaxReported == 2

\* largest max_results a caller passes
MaxResultsArg == 2

\* the default of diagnose's max_results
DEFAULT_MAX_RESULTS == 5

\* max_results of validate_system_with_cases
VALIDATE_MAX_RESULTS == 3

\* ids asked of backward_chain: those of the diseases a caller registers and
\* one of no disease
TargetIds == {disease.id : disease \in RegisteredInputs} \cup {"NONEXISTENT"}

\* ids the tests ask of backward_chain on the shipped catalog
ShippedTargetIds == {"GRIPE", "GASTRITIS", "NONEXISTENT"}

\* ids the symptom catalog does not register: two that shipped diseases list
\* as excluding symptoms (RINITIS_ALERGICA, VERTIGO) and one no disease lists
UnknownIds == {"DOLOR_GARGANTA_INTENSO", "DOLOR_CABEZA_INTENSO", "NONEXISTENT"}

\* the report of TestInferenceEngine.test_diagnose_with_gripe_symptoms
GripeAdds ==
    << <<"FIEBRE", 3, 3, "">>, <<"FATIGA", 3, 3, "">>, <<"DOLOR_MUSCULAR", 3, 3, "">>,
       <<"DOLOR_CABEZA", 2, 3, "">>, <<"TOS_SECA", 2, 2, "">> >>

CaseReport(i) == AddAll(PatientSymptoms, ShippedCases[i].adds)

(***************************************************************************)
(* State.                                                                  *)
(***************************************************************************)
VARIABLES
    diseases,   \* KnowledgeBase.diseases of the engine's knowledge base
    patient,    \* the caller's PatientSymptoms
    ret         \* the last operation and what it returned

vars == <<diseases, patient, ret>>

NoCall == [op |-> "none"]

\* KnowledgeBase.__init__ before any disease is registered; PatientSymptoms()
Init ==
    /\ diseases = <<>>
    /\ patient = PatientSymptoms
    /\ ret = NoCall

\* KnowledgeBase() with the shipped catalog registered; PatientSymptoms()
InitShipped ==
    /\ diseases = ShippedDiseases
    /\ patient = PatientSymptoms
    /\ ret = NoCall

(***************************************************************************)
(* Operations.                                                             *)
(***************************************************************************)
RegisterDisease(disease) ==
    /\ known_disease(diseases, disease.id) \/ Len(diseases) < MaxDiseases
    /\ diseases' = register_disease(diseases, disease)
    /\ ret' = NoCall
    /\ UNCHANGED patient

AddSymptom(symptom_id, severity, duration, note) ==
    /\ has_symptom(patient, symptom_id) \/ get_symptom_count(patient) < MaxReported
    /\ patient' = add_symptom(patient, symptom_id, severity, duration, note)
    /\ ret' = NoCall
    /\ UNCHANGED diseases

RemoveSymptom(symptom_id) ==
    /\ patient' = remove_symptom(patient, symptom_id)
    /\ ret' = NoCall
    /\ UNCHANGED diseases

Clear ==
    /\ patient' = clear(patient)
    /\ ret' = NoCall
    /\ UNCHANGED diseases

\* CaseGenerator().get_all_cases()[i - 1].patient_symptoms
LoadCase(i) ==
    /\ patient' = CaseReport(i)
    /\ ret' = NoCall
    /\ UNCHANGED diseases

\* the five add_symptom calls of test_diagnose_with_gripe_symptoms
ReportGripe ==
    /\ patient' = AddAll(PatientSymptoms, GripeAdds)
    /\ ret' = NoCall
    /\ UNCHANGED diseases

EvaluateDisease(i) ==
    /\ i \in 1..Len(diseases)
    /\ ret' = [op |-> "_evaluate_disease", val |-> _evaluate_disease(diseases[i], patient)]
    /\ UNCHANGED <<diseases, patient>>

\* diagnose with the report's own set narrowed in place (patient_symptom_ids
\* aliases patient_symptoms.symptoms): what the call would leave behind
DiagnoseNarrowingReport(max_results) ==
    /\ ret' = [op |-> "diagnose", max_results |-> max_results,
               val |-> diagnose(diseases, patient, max_results),
               again |-> ret.op = "diagnose" /\ ret.max_results = max_results]
    /\ patient' = [patient EXCEPT !.symptoms =
                      {s \in @ : \A i \in 1..Len(diseases) :
                                    s \in diseases[i].required_symptoms}]
    /\ UNCHANGED diseases

Diagnose(max_results) ==
    /\ ret' = [op |-> "diagnose", max_results |-> max_results,
               val |-> diagnose(diseases, patient, max_results),
               \* the call before was this same call
               again |-> ret.op = "diagnose" /\ ret.max_results = max_results]
    /\ UNCHANGED <<diseases, patient>>

\* backward_chain with the disease's own required set narrowed in place
\* (missing_required taken as the set itself and reduced with -=): what the
\* call would leave in the catalog
BackwardChainNarrowingCatalog(target_disease_id) ==
    /\ ret' = [op |-> "backward_chain", target_disease_id |-> target_disease_id,
               val |-> backward_chain(diseases, target_disease_id, patient)]
    /\ diseases' = [i \in 1..Len(diseases) |->
                      IF diseases[i].id = target_disease_id
                      THEN [diseases[i] EXCEPT !.required_symptoms = @ \ patient.symptoms]
                      ELSE diseases[i]]
    /\ UNCHANGED patient

BackwardChain(target_disease_id) ==
    /\ ret' = [op |-> "backward_chain", target_disease_id |-> target_disease_id,
               val |-> backward_chain(diseases, target_disease_id, patient)]
    /\ UNCHANGED <<diseases, patient>>

Next ==
    \/ \E disease \in RegisteredInputs : RegisterDisease(disease)
    \/ \E symptom_id \in ReportedIds, level \in ReportedLevels :
          AddSymptom(symptom_id, level[1], level[2], "")
    \/ \E symptom_id \in ReportedIds : RemoveSymptom(symptom_id)
    \/ Clear
    \/ \E i \in 1..MaxDiseases : EvaluateDisease(i)
    \/ \E max_results \in 0..MaxResultsArg : Diagnose(max_results)
    \/ \E target_disease_id \in TargetIds : BackwardChain(target_disease_id)

Spec == Init /\ [][Next]_vars

(***************************************************************************)
(* analyze_symptom_patterns. Categories are keyed by the name of the       *)
(* SymptomCategory member (the code keys them by its value, one per        *)
(* member); chronic_symptoms is the set of the symptoms whose names the    *)
(* code lists, in the iteration order of the report's set.                 *)
(***************************************************************************)
\* duration > 14 days makes a symptom chronic
CHRONIC_DAYS == 14

\* the reported symptoms the catalog registers: the loop body of lines 384-394
analyzed(ps) == {s \in ps.symptoms : registered(s)}

\* dict(categories)
category_distribution(ps) ==
    [c \in {registry_symptoms[s][2] : s \in analyzed(ps)} |->
        Cardinality({s \in analyzed(ps) : registry_symptoms[s][2] = c})]

\* what categories.most_common(1)[0][0] can be: a category of the largest
\* count; among equal counts the first inserted, that is the first in the
\* iteration order of the report's set, which the hash seed decides
dominant_categories(ps) ==
    IF analyzed(ps) = {} THEN {"N/A"}
    ELSE {c \in DOMAIN category_distribution(ps) :
             \A o \in DOMAIN category_distribution(ps) :
                category_distribution(ps)[o] <= category_distribution(ps)[c]}

\* total_severity: severity values of the registered symptoms that have one
total_severity(ps) ==
    SumOver({s \in analyzed(ps) : get_severity(ps, s) # NoSeverity},
            [s \in analyzed(ps) |-> get_severity(ps, s)])

analyze_symptom_patterns(ps, dominant_category) ==
    [dominant_category |-> dominant_category,
     category_distribution |-> category_distribution(ps),
     average_severity |-> IF ps.symptoms # {}
                          THEN Q(total_severity(ps), Cardinality(ps.symptoms))
                          ELSE ZERO,
     chronic_symptoms |-> {s \in analyzed(ps) : get_duration(ps, s) > CHRONIC_DAYS},
     total_symptoms |-> Cardinality(ps.symptoms)]

AnalyzeSymptomPatterns ==
    \E dominant_category \in dominant_categories(patient) :
       /\ ret' = [op |-> "analyze_symptom_patterns",
                  val |-> analyze_symptom_patterns(patient, dominant_category)]
       /\ UNCHANGED <<diseases, patient>>

NextShipped ==
    \/ \E i \in 1..Len(ShippedCases) : LoadCase(i)
    \/ ReportGripe
    \/ Clear
    \/ \E max_results \in {0, VALIDATE_MAX_RESULTS, DEFAULT_MAX_RESULTS} :
          Diagnose(max_results)
    \/ \E target_disease_id \in ShippedTargetIds : BackwardChain(target_disease_id)
    \/ AnalyzeSymptomPatterns

SpecShipped == InitShipped /\ [][NextShipped]_vars

(***************************************************************************)
(* The patient report on its own: the PatientSymptoms operations with      *)
(* notes, and the engine's functions of a report alone.                    *)
(***************************************************************************)
\* notes a caller passes to add_symptom: the default and the one of
\* TestPatientSymptoms.test_add_symptom
ReportedNotes == {"", "Nota de prueba"}

\* a disease of the fourth urgency
SYN_D ==
    [id |-> "SYN_D", urgency |-> "CONSULTA_PROGRAMADA",
     required_symptoms |-> {}, common_symptoms |-> {"SANGRE_ORINA"},
     optional_symptoms |-> {}, excluding_symptoms |-> {}]

(***************************************************************************)
(* Catalogs with diseases that score alike: SYN_E lists the symptoms of    *)
(* SYN_D under another id, so both get the same confidence on any report.  *)
(***************************************************************************)
SYN_E == [SYN_D EXCEPT !.id = "SYN_E", !.urgency = "AUTOCUIDADO"]

TiedInputs == {SYN_B, SYN_D, SYN_E}

NextTied ==
    \/ \E disease \in TiedInputs : RegisterDisease(disease)
    \/ \E symptom_id \in ReportedIds, level \in ReportedLevels :
          AddSymptom(symptom_id, level[1], level[2], "")
    \/ \E symptom_id \in ReportedIds : RemoveSymptom(symptom_id)
    \/ Clear
    \/ \E max_results \in 0..MaxResultsArg : Diagnose(max_results)

SpecTied == Init /\ [][NextTied]_vars

(***************************************************************************)
(* validate_system_with_cases. A case is a record [id, expected_diagnosis, *)
(* adds], its report the one its add_symptom calls build.                  *)
(***************************************************************************)
\* lines 355-370: the outcome of a case whose diagnose call returned
\* diagnoses; "" when diagnose returned nothing (no branch is taken)
status_of(diagnoses, expected_diagnosis) ==
    IF diagnoses = <<>> THEN ""
    ELSE IF diagnoses[1].disease.id = expected_diagnosis THEN "CORRECTO"
    ELSE IF \E i \in 1..Len(diagnoses) :
               i <= 3 /\ diagnoses[i].disease.id = expected_diagnosis
         THEN "PARCIAL"
    ELSE "INCORRECTO"

\* lines 372-378: the entry appended to case_results, if any
case_result(case, diagnoses) ==
    IF diagnoses = <<>> THEN <<>>
    ELSE << [case_id |-> case.id,
             expected |-> case.expected_diagnosis,
             predicted |-> diagnoses[1].disease.id,
             confidence |-> diagnoses[1].confidence,
             status |-> status_of(diagnoses, case.expected_diagnosis)] >>

\* inference_engine.diagnose(case.patient_symptoms, max_results=3)
case_diagnoses(ds, case) ==
    diagnose(ds, AddAll(PatientSymptoms, case.adds), VALIDATE_MAX_RESULTS)

RECURSIVE case_results(_, _, _)
case_results(ds, cases, i) ==
    IF i > Len(cases) THEN <<>>
    ELSE case_result(cases[i], case_diagnoses(ds, cases[i]))
            \o case_results(ds, cases, i + 1)

\* how many cases ended with the status
tally(ds, cases, status) ==
    Cardinality({i \in 1..Len(cases) :
        status_of(case_diagnoses(ds, cases[i]), cases[i].expected_diagnosis) = status})

\* lines 381-382
accuracy_of(correct_diagnoses, total_cases) ==
    IF total_cases > 0 THEN QMul(Q(correct_diagnoses, total_cases), HUNDRED) ELSE ZERO

validate_system_with_cases(ds, cases) ==
    [total_cases |-> Len(cases),
     correct_diagnoses |-> tally(ds, cases, "CORRECTO"),
     partial_matches |-> tally(ds, cases, "PARCIAL"),
     incorrect |-> tally(ds, cases, "INCORRECTO"),
     accuracy |-> accuracy_of(tally(ds, cases, "CORRECTO"), Len(cases)),
     case_results |-> case_results(ds, cases, 1)]

\* cases of a battery: an empty report, one symptom, two symptoms
CaseInputs ==
    {[id |-> "CASE_A", expected_diagnosis |-> "SYN_B", adds |-> <<>>],
     [id |-> "CASE_B", expected_diagnosis |-> "SYN_C",
      adds |-> << <<"SANGRE_ORINA", 4, 7, "">> >>],
     [id |-> "CASE_C", expected_diagnosis |-> "SYN_A",
      adds |-> << <<"PERDIDA_CONCIENCIA", 3, 100, "">>, <<"SANGRE_ORINA", 1, 0, "">> >>]}

\* most cases of a battery
MaxCases == 2

\* CaseGenerator.get_all_cases() of a caller's generator
Batteries == UNION {[1..n -> CaseInputs] : n \in 0..MaxCases}

ValidateSystemWithCases(cases) ==
    /\ ret' = [op |-> "validate_system_with_cases", cases |-> cases,
               val |-> validate_system_with_cases(diseases, cases)]
    /\ UNCHANGED <<diseases, patient>>

NextValidate ==
    \/ \E disease \in RegisteredInputs : RegisterDisease(disease)
    \/ \E cases \in Batteries : ValidateSystemWithCases(cases)

SpecValidate == Init /\ [][NextValidate]_vars

\* matched_symptoms the multipliers are asked about: any of the reported ids,
\* in the report or not
MatchedSets == SUBSET ReportedIds

CalculateSeverityMultiplier(matched_symptoms) ==
    /\ ret' = [op |-> "_calculate_severity_multiplier",
               matched_symptoms |-> matched_symptoms,
               val |-> _calculate_severity_multiplier(patient, matched_symptoms)]
    /\ UNCHANGED <<diseases, patient>>

CalculateDurationMultiplier(matched_symptoms) ==
    /\ ret' = [op |-> "_calculate_duration_multiplier",
               matched_symptoms |-> matched_symptoms,
               val |-> _calculate_duration_multiplier(patient, matched_symptoms)]
    /\ UNCHANGED <<diseases, patient>>

\* diseases and confidences _determine_risk_level is asked about: every
\* urgency; the high-confidence threshold itself, a value above and one below
RiskDiseases == RegisteredInputs \cup {SYN_D}
RiskConfidences == {HIGH_CONFIDENCE_THRESHOLD, Q(71, 100), Q(1, 4)}

DetermineRiskLevel(disease, confidence) ==
    /\ ret' = [op |-> "_determine_risk_level", disease |-> disease,
               confidence |-> confidence,
               val |-> _determine_risk_level(disease, confidence, patient)]
    /\ UNCHANGED <<diseases, patient>>

\* <<severity, duration>> of a report on its own: those above and the
\* defaults of add_symptom (MODERADO, 1 day)
ReportLevels == ReportedLevels \cup {<<MODERADO, 1>>}

NextReport ==
    \/ \E symptom_id \in ReportedIds, level \in ReportLevels, note \in ReportedNotes :
          AddSymptom(symptom_id, level[1], level[2], note)
    \/ \E symptom_id \in ReportedIds : RemoveSymptom(symptom_id)
    \/ Clear
    \/ \E disease \in RiskDiseases, confidence \in RiskConfidences :
          DetermineRiskLevel(disease, confidence)
    \/ AnalyzeSymptomPatterns
    \/ \E matched_symptoms \in MatchedSets : CalculateSeverityMultiplier(matched_symptoms)
    \/ \E matched_symptoms \in MatchedSets : CalculateDurationMultiplier(matched_symptoms)

SpecReport == Init /\ [][NextReport]_vars

(***************************************************************************)
(* Properties.                                                             *)
(***************************************************************************)
\* C1: every result diagnose returns carries a confidence >= 0.25 (the value
\* stored in the returned result, after the renormalization pass).
C1_ReturnedConfidenceReachesThreshold ==
    ret.op = "diagnose" =>
        \A i \in 1..Len(ret.val) :
            QLe(MIN_CONFIDENCE_THRESHOLD, ret.val[i].confidence)

\* C2: the confidence _evaluate_disease produces and every confidence in the
\* list diagnose returns lie in the closed interval [0, 1].
C2_ConfidenceInUnitInterval ==
    /\ ret.op = "_evaluate_disease" =>
           QLe(ZERO, ret.val.confidence) /\ QLe(ret.val.confidence, ONE)
    /\ ret.op = "diagnose" =>
           \A i \in 1..Len(ret.val) :
               QLe(ZERO, ret.val[i].confidence) /\ QLe(ret.val[i].confidence, ONE)

\* C2 witness: _evaluate_disease returned for a disease that passes the gate
\* and whose weighted sum times the multipliers is negative (the clamp acted).
C2_ClampActed ==
    /\ ret.op = "_evaluate_disease"
    /\ ret.val.explanation # << <<EXPLANATION_GATE, {}>> >>
    /\ QLt(adjusted_confidence(ret.val.disease, patient), ZERO)
    /\ QEq(ret.val.confidence, ZERO)

\* C3: the list diagnose returns is non-increasing in confidence: every
\* result's confidence is >= the confidence of the result after it.
C3_ResultsNonIncreasing ==
    ret.op = "diagnose" =>
        \A i \in 1..(Len(ret.val) - 1) :
            QLe(ret.val[i + 1].confidence, ret.val[i].confidence)

\* C3 witness: diagnose returned two results of different confidence, the
\* first of which comes later in the catalog (the sort moved it).
C3_SortReordered ==
    /\ ret.op = "diagnose"
    /\ Len(ret.val) = 2
    /\ QLt(ret.val[2].confidence, ret.val[1].confidence)
    /\ IndexOf(diseases, ret.val[1].disease.id, 1)
           > IndexOf(diseases, ret.val[2].disease.id, 1)

\* C4: diagnose(report, k) returns at most k results, and none for k = 0.
C4_AtMostMaxResults ==
    ret.op = "diagnose" =>
        /\ Len(ret.val) <= ret.max_results
        /\ ret.max_results = 0 => ret.val = <<>>

\* C4 witness: diagnose returned one result of the two that reach the
\* threshold (the slice cut the list).
C4_SliceCut ==
    /\ ret.op = "diagnose"
    /\ ret.max_results = 1
    /\ Len(ret.val) = 1
    /\ Len(Surviving(diseases, patient, 1)) = 2

\* C5 as stated: for every catalog, diagnose on a report with zero symptoms
\* returns the empty list.
C5_EmptyReportEmptyList ==
    (ret.op = "diagnose" /\ patient.symptoms = {}) => ret.val = <<>>

\* C5 amended: on a report with zero symptoms diagnose returns only diseases
\* that have no required symptom; so the list is empty for every catalog
\* whose diseases all have at least one required symptom.
C5_EmptyReportOnlyUnrequired ==
    (ret.op = "diagnose" /\ patient.symptoms = {}) =>
        \A i \in 1..Len(ret.val) : ret.val[i].disease.required_symptoms = {}

\* C5 witness: diagnose asked for at least one result on a report with zero
\* symptoms, over a non-empty catalog whose diseases all have a required
\* symptom, returned the empty list.
C5_EmptyReportDiagnosed ==
    /\ ret.op = "diagnose"
    /\ ret.max_results >= 1
    /\ patient.symptoms = {}
    /\ Len(diseases) >= 1
    /\ \A i \in 1..Len(diseases) : diseases[i].required_symptoms # {}
    /\ ret.val = <<>>

\* C6: with R the required symptoms of the disease and P the report, when
\* |R & P| / |R| < 0.5 _evaluate_disease returns confidence exactly
\* (|R & P| / |R|) * 0.3, matched_symptoms = R & P and missing_key_symptoms =
\* R - P; when |R & P| / |R| = 0.5 the early return is not taken.
C6_RequiredGate ==
    ret.op = "_evaluate_disease" =>
        LET R == ret.val.disease.required_symptoms
            P == patient.symptoms
            r == Cardinality(R \cap P)
            n == Cardinality(R)
        IN /\ (n > 0 /\ 2 * r < n) =>
                  /\ QEq(ret.val.confidence, Q(3 * r, 10 * n))
                  /\ ret.val.matched_symptoms = R \cap P
                  /\ ret.val.missing_key_symptoms = R \ P
                  /\ ret.val.explanation = << <<EXPLANATION_GATE, {}>> >>
           /\ (n > 0 /\ 2 * r = n) =>
                  ret.val.explanation # << <<EXPLANATION_GATE, {}>> >>

\* C6 witness: _evaluate_disease took the early return for a disease of which
\* the report holds a required symptom (one that carries a severity and a
\* duration), but fewer than half of them.
C6_GatedWithMatch ==
    /\ ret.op = "_evaluate_disease"
    /\ ret.val.explanation = << <<EXPLANATION_GATE, {}>> >>
    /\ ret.val.matched_symptoms # {}
    /\ \A s \in ret.val.matched_symptoms :
           get_severity(patient, s) > 1 /\ get_duration(patient, s) > 0

\* C7: backward_chain returns true exactly when the id is known, every
\* required symptom of the disease is in the report and no excluding symptom
\* is; for an unknown id it returns false with the message "Enfermedad no
\* encontrada en la base de conocimiento".
C7_BackwardChainIff ==
    ret.op = "backward_chain" =>
        LET known == {i \in 1..Len(diseases) : diseases[i].id = ret.target_disease_id}
        IN /\ ret.val[1] =
                  (/\ known # {}
                   /\ \A i \in known :
                          /\ diseases[i].required_symptoms \subseteq patient.symptoms
                          /\ diseases[i].excluding_symptoms \cap patient.symptoms = {})
           /\ known = {} =>
                  /\ ret.val[1] = FALSE
                  /\ ret.val[2].text =
                         "Enfermedad no encontrada en la base de conocimiento"

\* C7 witness: backward_chain returned true for a disease that has required
\* and excluding symptoms.
C7_BackwardChainTrue ==
    /\ ret.op = "backward_chain"
    /\ ret.val[1] = TRUE
    /\ get_disease(diseases, ret.target_disease_id).required_symptoms # {}
    /\ get_disease(diseases, ret.target_disease_id).excluding_symptoms # {}

\* C8: on the shipped catalog, diagnose(report, 5) for the report FIEBRE
\* GRAVE 3 d, FATIGA GRAVE 3 d, DOLOR_MUSCULAR GRAVE 3 d, DOLOR_CABEZA
\* MODERADO 3 d, TOS_SECA MODERADO 2 d returns a non-empty list whose first
\* result is GRIPE with confidence > 0.6.
C8_GripeFirst ==
    (/\ ret.op = "diagnose"
     /\ ret.max_results = DEFAULT_MAX_RESULTS
     /\ patient = AddAll(PatientSymptoms, GripeAdds)) =>
        /\ ret.val # <<>>
        /\ ret.val[1].disease.id = "GRIPE"
        /\ QLt(Q(6, 10), ret.val[1].confidence)

\* C9: for each of the 12 cases, on the shipped catalog, diagnose(report, 5)
\* returns at least one result and the case's expected_diagnosis is the
\* disease of one of the first three results.
C9_ExpectedInTopThree ==
    \A c \in 1..Len(ShippedCases) :
        (/\ ret.op = "diagnose"
         /\ ret.max_results = DEFAULT_MAX_RESULTS
         /\ patient = CaseReport(c)) =>
            /\ ret.val # <<>>
            /\ \E j \in 1..Len(ret.val) :
                   /\ j <= VALIDATE_MAX_RESULTS
                   /\ ret.val[j].disease.id = ShippedCases[c].expected_diagnosis

C11_AddReplacesAll ==
    [][\A symptom_id \in ReportedIds, level \in ReportLevels, note \in ReportedNotes :
          AddSymptom(symptom_id, level[1], level[2], note)
          => /\ get_severity(patient', symptom_id) = level[1]
             /\ get_duration(patient', symptom_id) = level[2]
             /\ IF note = "" THEN symptom_id \notin DOMAIN patient'.notes
                ELSE /\ symptom_id \in DOMAIN patient'.notes
                     /\ patient'.notes[symptom_id] = note]_vars

\* C12: has_symptom(id) is true exactly when the last operation touching id
\* was an add_symptom with no later remove_symptom(id) or clear: every step
\* that adds id makes it true, every step that removes id or clears makes it
\* false (also when id was absent), every other step leaves it as it was;
\* get_symptom_count is the number of ids for which has_symptom is true, so
\* re-adding an id does not raise it.
C12_ReportTracksLastOperation ==
    [][/\ \A symptom_id \in ReportedIds :
             has_symptom(patient', symptom_id) =
                IF \E level \in ReportLevels, note \in ReportedNotes :
                      AddSymptom(symptom_id, level[1], level[2], note)
                THEN TRUE
                ELSE IF RemoveSymptom(symptom_id) \/ Clear THEN FALSE
                ELSE has_symptom(patient, symptom_id)
       /\ get_symptom_count(patient') =
             Cardinality({symptom_id \in ReportedIds : has_symptom(patient', symptom_id)})]_vars

\* one id is reported after another was added and removed again: the set
\* holds one id while a second has left no severity, duration or note
C12_AddedAndRemoved ==
    /\ get_symptom_count(patient) = 1
    /\ has_symptom(patient, "SANGRE_ORINA")
    /\ "SANGRE_ORINA" \in DOMAIN patient.notes
    /\ ~has_symptom(patient, "PERDIDA_CONCIENCIA")
    /\ get_severity(patient, "PERDIDA_CONCIENCIA") = NoSeverity

\* C13: the risk level follows a strict precedence: Emergency urgency gives
\* CRITICO; otherwise Urgent-visit urgency gives ALTO; otherwise a severity
\* score > 20 gives ALTO; otherwise a confidence > 0.70 gives MODERADO;
\* otherwise BAJO. Urgency wins over any score or confidence, and a score of
\* exactly 20 or a confidence of exactly 0.70 does not elevate.
C13_RiskPrecedence ==
    ret.op = "_determine_risk_level" =>
       LET urgency == ret.disease.urgency
           high_score == QLt(Q(20, 1), calculate_severity_score(patient))
           high_confidence == QLt(Q(70, 100), ret.confidence)
           other == urgency \notin {"EMERGENCIA", "CONSULTA_URGENTE"}
       IN /\ urgency = "EMERGENCIA" => ret.val = "CRITICO"
          /\ urgency = "CONSULTA_URGENTE" => ret.val = "ALTO"
          /\ other /\ high_score => ret.val = "ALTO"
          /\ other /\ ~high_score /\ high_confidence => ret.val = "MODERADO"
          /\ other /\ ~high_score /\ ~high_confidence => ret.val = "BAJO"

\* a self-care disease asked at a severity score of exactly 20 and a
\* confidence of exactly 0.70
C13_AtBothBoundaries ==
    /\ ret.op = "_determine_risk_level"
    /\ ret.disease.urgency = "AUTOCUIDADO"
    /\ QEq(calculate_severity_score(patient), Q(20, 1))
    /\ QEq(ret.confidence, Q(70, 100))
    /\ ret.val = "BAJO"

\* C14: for a disease _evaluate_disease does not gate, with R, C, O, X its
\* required, common, optional and excluding sets and P the report, the
\* confidence before the multipliers is
\*   0.40*rs + 0.35*cs + 0.15*os - 0.10*(0.15*|X \cap P|)
\* where rs = |R \cap P|/|R|, or 1.0 when R is empty, cs = |C \cap P|/|C|, or
\* 0.5 when C is empty, and os = |O \cap P|/|O|, or 0.5 when O is empty; the
\* penalty is not divided by |X|. The confidence returned is that value
\* times the two multipliers, clamped to [0, 1].
C14_FallbackWeightedSum ==
    ret.op = "_evaluate_disease" =>
       LET disease == ret.val.disease
           P == patient.symptoms
           matched == (disease.required_symptoms \cup disease.common_symptoms) \cap P
           share(S, fallback) ==
               IF S = {} THEN fallback
               ELSE Q(Cardinality(S \cap P), Cardinality(S))
           rs == share(disease.required_symptoms, Q(1, 1))
           sum == QSub(QAdd(QAdd(QMul(Q(40, 100), rs),
                                 QMul(Q(35, 100), share(disease.common_symptoms, Q(1, 2)))),
                            QMul(Q(15, 100), share(disease.optional_symptoms, Q(1, 2)))),
                       QMul(Q(10, 100),
                            Q(15 * Cardinality(disease.excluding_symptoms \cap P), 100)))
       IN ~QLt(rs, Q(1, 2)) =>
             /\ QEq(weighted_confidence(disease, patient), sum)
             /\ QEq(ret.val.confidence,
                    QMax(Q(0, 1), QMin(Q(1, 1),
                         QMul(QMul(sum, _calculate_severity_multiplier(patient, matched)),
                              _calculate_duration_multiplier(patient, matched)))))

\* a disease with no common and no optional symptom passed the gate on
\* half of its required symptoms: 0.40*0.5 + 0.35*0.5 + 0.15*0.5
C14_EmptySetsEvaluated ==
    /\ ret.op = "_evaluate_disease"
    /\ ret.val.disease.common_symptoms = {}
    /\ ret.val.disease.optional_symptoms = {}
    /\ ~gated(ret.val.disease, patient)
    /\ QEq(weighted_confidence(ret.val.disease, patient), Q(45, 100))

\* C15: for every catalog, report and symptom id u that the symptom catalog
\* does not register, diagnose on the report extended with u (reported with
\* add_symptom's defaults) returns the same diseases in the same order with
\* the same confidences as on the report without u.
C15_UnknownIdContributesNothing ==
    ret.op = "diagnose" =>
       \A u \in UnknownIds :
          (~registered(u) /\ ~has_symptom(patient, u)) =>
             LET extended == diagnose(diseases, add_symptom(patient, u, MODERADO, 1, ""),
                                      ret.max_results)
             IN /\ Len(extended) = Len(ret.val)
                /\ \A i \in 1..Len(extended) :
                      /\ extended[i].disease.id = ret.val[i].disease.id
                      /\ QEq(extended[i].confidence, ret.val[i].confidence)

\* C16: analyze_symptom_patterns returns average_severity equal to the sum
\* of the reported severity levels of all reported symptoms divided by the
\* number of reported symptoms (0 for an empty report), also when a reported
\* id is not in the symptom catalog, and total_symptoms equal to the number
\* of reported symptoms.
C16_AverageOverAllReported ==
    ret.op = "analyze_symptom_patterns" =>
       /\ ret.val.total_symptoms = get_symptom_count(patient)
       /\ QEq(ret.val.average_severity,
              IF patient.symptoms = {} THEN Q(0, 1)
              ELSE Q(SumOver(patient.symptoms, patient.severity_levels),
                     get_symptom_count(patient)))

\* C17: when the matched set is non-empty and the average reported duration
\* over it is below 1 day (every matched symptom reported with duration 0),
\* _calculate_duration_multiplier returns 0.85, a value below 1.0.
C17_FreshSymptomsReduce ==
    (/\ ret.op = "_calculate_duration_multiplier"
     /\ ret.matched_symptoms # {}
     /\ ret.matched_symptoms \subseteq patient.symptoms
     /\ SumOver(ret.matched_symptoms, patient.duration_days)
           < Cardinality(ret.matched_symptoms))
    => /\ QEq(ret.val, Q(85, 100))
       /\ QLt(ret.val, Q(1, 1))

\* C18: for every report with non-negative durations and every matched set,
\* _calculate_duration_multiplier returns a value > 0 and <= 1.15.
C18_DurationMultiplierBounded ==
    ret.op = "_calculate_duration_multiplier" =>
       /\ QLt(Q(0, 1), ret.val)
       /\ QLe(ret.val, Q(115, 100))

C20_RiskAgreesWithReturnedConfidence ==
    (ret.op = "diagnose" /\ QLe(calculate_severity_score(patient), Q(20, 1))) =>
       \A i \in 1..Len(ret.val) :
          ret.val[i].disease.urgency \notin {"EMERGENCIA", "CONSULTA_URGENTE"} =>
             ret.val[i].risk_level =
                IF QLt(Q(70, 100), ret.val[i].confidence) THEN "MODERADO" ELSE "BAJO"

\* C21: the renormalization is applied once, over all the results that
\* reached the 0.25 threshold and before the cut to max_results: each
\* returned confidence is 0.7 * c / total + 0.3 * c, with c the confidence
\* _evaluate_disease gives the result's disease and total the sum of c over
\* every disease of the catalog whose c reaches 0.25, returned or not.
C21_NormalizedOverAllSurvivors ==
    ret.op = "diagnose" =>
       LET c == [i \in 1..Len(diseases) |->
                   _evaluate_disease(diseases[i], patient).confidence]
           survives == [i \in 1..Len(diseases) |-> QLe(Q(25, 100), c[i])]
           RECURSIVE sum(_)
           sum(i) == IF i = 0 THEN Q(0, 1)
                     ELSE IF survives[i] THEN QAdd(c[i], sum(i - 1))
                     ELSE sum(i - 1)
           total == sum(Len(diseases))
       IN \A k \in 1..Len(ret.val) :
             \E i \in 1..Len(diseases) :
                /\ diseases[i].id = ret.val[k].disease.id
                /\ survives[i]
                /\ QEq(ret.val[k].confidence,
                       QAdd(QDiv(QMul(Q(7, 10), c[i]), total),
                            QMul(Q(3, 10), c[i])))

\* diagnose returned one result while two diseases reached the threshold
C21_SurvivorCutOff ==
    /\ ret.op = "diagnose"
    /\ Len(ret.val) = 1
    /\ Len(Surviving(diseases, patient, 1)) = 2

\* C22: an average reported severity of exactly 2.0 over the matched
\* symptoms (all of them MODERADO) yields a severity multiplier of exactly
\* 1.0, and a higher average severity yields a higher multiplier.
C22_ModerateSeverityNeutral ==
    (/\ ret.op = "_calculate_severity_multiplier"
     /\ ret.matched_symptoms # {}
     /\ ret.matched_symptoms \subseteq patient.symptoms
     /\ \A symptom_id \in ret.matched_symptoms :
           get_severity(patient, symptom_id) = MODERADO)
    => /\ QEq(ret.val, Q(1, 1))
       /\ \A other \in MatchedSets :
             (/\ other # {} /\ other \subseteq patient.symptoms
              /\ SumOver(other, patient.severity_levels) > 2 * Cardinality(other))
             => QLt(ret.val, _calculate_severity_multiplier(patient, other))

\* C23: backward_chain checks the unknown disease first, then the missing
\* required symptoms, then the excluding symptoms: for a known disease with
\* a required symptom missing the reason is the missing-required one, also
\* when an excluding symptom is reported, and the excluding reason is
\* returned only when every required symptom is reported.
C23_BackwardChainOrder ==
    ret.op = "backward_chain" =>
       LET known == \E i \in 1..Len(diseases) : diseases[i].id = ret.target_disease_id
           disease == CHOOSE d \in {diseases[i] : i \in 1..Len(diseases)} :
                         d.id = ret.target_disease_id
           text == ret.val[2].text
       IN /\ ~known => (~ret.val[1] /\ text = "Enfermedad no encontrada en la base de conocimiento")
          /\ (known /\ ~(disease.required_symptoms \subseteq patient.symptoms))
                => (~ret.val[1] /\ text = "Faltan sintomas requeridos")
          /\ text = "Presenta sintomas que excluyen este diagnostico"
                => /\ known /\ ~ret.val[1]
                   /\ disease.required_symptoms \subseteq patient.symptoms
                   /\ disease.excluding_symptoms \cap patient.symptoms # {}

\* a known disease asked about with a required symptom missing and an
\* excluding symptom reported
C23_MissingAndExcluding ==
    /\ ret.op = "backward_chain"
    /\ \E i \in 1..Len(diseases) :
          /\ diseases[i].id = ret.target_disease_id
          /\ diseases[i].required_symptoms \ patient.symptoms # {}
          /\ diseases[i].excluding_symptoms \cap patient.symptoms # {}
    /\ ret.val[2].text = "Faltan sintomas requeridos"

\* C24: when two surviving diseases have equal confidence, diagnose returns
\* them in catalog order: of two returned results of equal confidence the
\* one whose disease was registered earlier comes first.
C24_TiesInCatalogOrder ==
    ret.op = "diagnose" =>
       \A k, l \in 1..Len(ret.val) :
          (k < l /\ QEq(ret.val[k].confidence, ret.val[l].confidence))
          => IndexOf(diseases, ret.val[k].disease.id, 1)
                < IndexOf(diseases, ret.val[l].disease.id, 1)

\* two results of equal confidence were returned, SYN_E registered before
\* SYN_D
C24_TieReturned ==
    /\ ret.op = "diagnose"
    /\ Len(ret.val) >= 2
    /\ QEq(ret.val[1].confidence, ret.val[2].confidence)
    /\ ret.val[1].disease.id = "SYN_E"
    /\ ret.val[2].disease.id = "SYN_D"

\* C25: validate_system_with_cases tallies every case in exactly one of the
\* three outcomes: correct_diagnoses + partial_matches + incorrect =
\* total_cases, case_results has one entry per case, and accuracy =
\* 100 * correct_diagnoses / total_cases.
C25_EveryCaseTallied ==
    ret.op = "validate_system_with_cases" =>
       /\ ret.val.total_cases = Len(ret.cases)
       /\ ret.val.correct_diagnoses + ret.val.partial_matches + ret.val.incorrect
             = ret.val.total_cases
       /\ Len(ret.val.case_results) = ret.val.total_cases
       /\ \A i \in 1..Len(ret.val.case_results) :
             ret.val.case_results[i].case_id = ret.cases[i].id
       /\ ret.val.total_cases > 0 =>
             QEq(ret.val.accuracy, Q(100 * ret.val.correct_diagnoses, ret.val.total_cases))

C27_KeysFollowSymptoms ==
    /\ DOMAIN patient.severity_levels = patient.symptoms
    /\ DOMAIN patient.duration_days = patient.symptoms
    /\ DOMAIN patient.notes \subseteq patient.symptoms

\* a report of one symptom that has a note and the duration 0; no other id
\* has a key in any of the three dicts
C27_SingleNotedSymptom ==
    /\ patient.symptoms = {"PERDIDA_CONCIENCIA"}
    /\ DOMAIN patient.notes = {"PERDIDA_CONCIENCIA"}
    /\ DOMAIN patient.severity_levels = {"PERDIDA_CONCIENCIA"}
    /\ DOMAIN patient.duration_days = {"PERDIDA_CONCIENCIA"}
    /\ patient.duration_days["PERDIDA_CONCIENCIA"] = 0

\* C28: for 0 <= k <= k', diagnose(report, k) is the first k entries of
\* diagnose(report, k'), with the same diseases, order and confidences: of
\* two calls in a row on the same report, the one with the smaller
\* max_results returns a prefix of what the other returns.
C28_SmallerMaxResultsIsPrefix ==
    [][(/\ ret.op = "diagnose" /\ ret'.op = "diagnose"
        /\ ret.max_results <= ret'.max_results)
       => /\ Len(ret.val) = IF ret.max_results < Len(ret'.val)
                            THEN ret.max_results ELSE Len(ret'.val)
          /\ \A i \in 1..Len(ret.val) :
                /\ ret.val[i].disease.id = ret'.val[i].disease.id
                /\ QEq(ret.val[i].confidence, ret'.val[i].confidence)]_vars

\* diagnose returned both surviving diseases for max_results = 2: with
\* max_results = 1 the second is cut off
C28_TwoReturned ==
    /\ ret.op = "diagnose"
    /\ ret.max_results = 2
    /\ Len(ret.val) = 2
    /\ ~QEq(ret.val[1].confidence, ret.val[2].confidence)

\* C29: every result diagnose returns has at least half of its disease's
\* required symptoms in the report (|R \cap P| / |R| >= 0.5, or R empty): a
\* result of the required-symptom early return, with its explanation
\* 'No cumple con sintomas requeridos principales', is never returned.
C29_NoGatedResultReturned ==
    ret.op = "diagnose" =>
       \A i \in 1..Len(ret.val) :
          LET R == ret.val[i].disease.required_symptoms
          IN /\ R = {} \/ 2 * Cardinality(R \cap patient.symptoms) >= Cardinality(R)
             /\ ret.val[i].explanation # << <<EXPLANATION_GATE, {}>> >>

\* diagnose returned a result while a registered disease was gated with one
\* of its four required symptoms reported (early confidence 0.25 * 0.3)
C29_GatedDiseaseLeftOut ==
    /\ ret.op = "diagnose"
    /\ ret.max_results = 2
    /\ Len(ret.val) = 1
    /\ \E i \in 1..Len(diseases) :
          /\ gated(diseases[i], patient)
          /\ diseases[i].required_symptoms \cap patient.symptoms # {}

\* C30: in every list diagnose returns, a result whose disease is of
\* Emergency urgency has risk_level CRITICO and one whose disease is of
\* Urgent-visit urgency has risk_level ALTO: the default BAJO of the early
\* return is never seen on such a disease.
C30_UrgencyRiskInResults ==
    ret.op = "diagnose" =>
       \A i \in 1..Len(ret.val) :
          /\ ret.val[i].disease.urgency = "EMERGENCIA" => ret.val[i].risk_level = "CRITICO"
          /\ ret.val[i].disease.urgency = "CONSULTA_URGENTE" => ret.val[i].risk_level = "ALTO"

\* an Emergency disease was returned by one call, and an Urgent-visit one
C30_UrgentReturned ==
    /\ ret.op = "diagnose"
    /\ Len(ret.val) = 2
    /\ {ret.val[1].disease.urgency, ret.val[2].disease.urgency}
          = {"EMERGENCIA", "CONSULTA_URGENTE"}

====
